---- MODULE Spec2Model ----
(***************************************************************************)
(* Idea-bank visualizer: the CSV record parser of App (processData), its   *)
(* per-line field tokenizer and its normalize helper.                      *)
(*                                                                         *)
(* A JavaScript string is a sequence of one-character strings, so that     *)
(* splitting, trimming, quoting and parsing are computed character by      *)
(* character as the code computes them.                                    *)
(***************************************************************************)
EXTENDS Integers, Sequences, FiniteSets, TLC

VARIABLES
    doc,        \* the spreadsheet whose CSV export is fetched (header names, rows of cells)
    csvText,    \* processData's argument: the exported text
    app,        \* which of the two App versions of the repository runs
    engine,     \* the JavaScript engine of the build (decides Date's day overflow)
    pc,         \* "idle" before the call, "returned" after it
    outcome,    \* what the processData call produced: [threw, list]
    line,       \* one data line handed to the field tokenizer
    values,     \* the tokenizer's output for line
    val,        \* normalize's argument
    normalized, \* normalize's result
    data,       \* App's data state: the loaded Idea list
    loading,    \* App's loading state
    error,      \* App's error state: null or a message
    variant,    \* which of the four Dashboard versions of the repository is built
    tz,         \* the browser's time zone: minutes east of UTC
    dash,       \* the mounted Dashboard's state (filters, searchTerm, sortConfig), or Unmounted
    clicks,     \* how many Dashboard events have been handled
    loads       \* how many times handleUrlSubmit has been started

vars == <<doc, csvText, app, engine, pc, outcome, line, values, val, normalized,
          data, loading, error, variant, tz, dash, clicks, loads>>

\* The variables of App and Dashboard.
appVars == <<data, loading, error, variant, tz, dash, clicks, loads>>

\* The variables of the calls of processData, the tokenizer and normalize alone.
callVars == <<doc, csvText, app, engine, pc, outcome, line, values, val, normalized>>

-----------------------------------------------------------------------------
(* Characters and JavaScript string built-ins                              *)

DQ == "\""
LF == "\n"
CR == "\r"

\* What String.prototype.trim strips and what \s matches (the ASCII part).
WhiteSpace == {" ", "\t", "\n", "\r", "\f"}

UpperLetters == <<"A", "B", "C", "D", "E", "F", "G", "H", "I", "J", "K", "L", "M",
                  "N", "O", "P", "Q", "R", "S", "T", "U", "V", "W", "X", "Y", "Z">>
LowerLetters == <<"a", "b", "c", "d", "e", "f", "g", "h", "i", "j", "k", "l", "m",
                  "n", "o", "p", "q", "r", "s", "t", "u", "v", "w", "x", "y", "z">>
Digits == <<"0", "1", "2", "3", "4", "5", "6", "7", "8", "9">>

Range(s) == {s[i] : i \in DOMAIN s}

IsDigit(c) == c \in Range(Digits)

\* The value of a decimal digit character.
DigitVal(c) == (CHOOSE i \in DOMAIN Digits : Digits[i] = c) - 1

\* \w of a regular expression without the u flag: [A-Za-z0-9_].
IsWordChar(c) == c \in Range(UpperLetters) \cup Range(LowerLetters) \cup Range(Digits) \cup {"_"}

CharToLower(c) ==
    IF c \in Range(UpperLetters)
    THEN LowerLetters[CHOOSE i \in DOMAIN UpperLetters : UpperLetters[i] = c]
    ELSE c

CharToUpper(c) ==
    IF c \in Range(LowerLetters)
    THEN UpperLetters[CHOOSE i \in DOMAIN LowerLetters : LowerLetters[i] = c]
    ELSE c

ToLowerCase(s) == [i \in DOMAIN s |-> CharToLower(s[i])]

\* s.slice(from) with a 1-based from.
SliceFrom(s, from) == SubSeq(s, from, Len(s))

\* String.prototype.trim
Trim(s) ==
    LET keep == {i \in DOMAIN s : s[i] \notin WhiteSpace}
    IN  IF keep = {} THEN <<>>
        ELSE SubSeq(s, CHOOSE i \in keep : \A j \in keep : i <= j,
                       CHOOSE i \in keep : \A j \in keep : i >= j)

\* String.prototype.split with a one-character separator: the pieces between
\* the separators, empty pieces kept; the empty string gives one empty piece.
Split(s, sep) ==
    LET at == {i \in DOMAIN s : s[i] = sep}
        n  == Cardinality(at)
        \* the position of the k-th separator; 0 and Len(s) + 1 bound the string
        Pos(k) == IF k = 0 THEN 0
                  ELSE IF k = n + 1 THEN Len(s) + 1
                  ELSE CHOOSE i \in at : Cardinality({j \in at : j <= i}) = k
    IN  [k \in 1..(n + 1) |-> SubSeq(s, Pos(k - 1) + 1, Pos(k) - 1)]

\* Array.prototype.join with a one-character separator.
RECURSIVE Join(_, _)
Join(parts, sep) ==
    IF parts = <<>> THEN <<>>
    ELSE IF Len(parts) = 1 THEN parts[1]
    ELSE parts[1] \o <<sep>> \o Join(Tail(parts), sep)

\* h.replace(/^"|"$/g, ''): one quote off the front and one off the end.
StripOuterQuotes(h) ==
    LET front == IF h # <<>> /\ h[1] = DQ THEN Tail(h) ELSE h
    IN  IF front # <<>> /\ front[Len(front)] = DQ
        THEN SubSeq(front, 1, Len(front) - 1)
        ELSE front

\* s.replace(/[$,]/g, '')
StripMoney(s) == SelectSeq(s, LAMBDA c : c \notin {"$", ","})

\* The value of a property that was never set, and of values[index] past the end.
Undefined == <<"undefined">>

-----------------------------------------------------------------------------
(* The per-line field tokenizer                                            *)

\* The locals of the for loop before its first turn; next is the position
\* (1-based) the loop reads next.
TokenizeStart == [next |-> 1, current |-> <<>>, inQuotes |-> FALSE, values |-> <<>>]

\* The loop body at position i.  A position the i++ of an escaped quote has
\* stepped over is not read.
TokenizeStep(ln, st, i) ==
    IF i < st.next THEN st
    ELSE LET char == ln[i] IN
         IF char = DQ /\ i + 1 <= Len(ln) /\ ln[i + 1] = DQ
         THEN [st EXCEPT !.current = Append(@, DQ), !.next = i + 2]
         ELSE IF char = DQ
         THEN [st EXCEPT !.inQuotes = ~@, !.next = i + 1]
         ELSE IF char = "," /\ ~st.inQuotes
         THEN [st EXCEPT !.values = Append(@, Trim(st.current)), !.current = <<>>, !.next = i + 1]
         ELSE [st EXCEPT !.current = Append(@, char), !.next = i + 1]

\* The turns of the loop at positions lo..hi, in order (halved, so that long
\* lines do not nest deeply; a range the loop has already stepped past leaves
\* the locals as they are).
RECURSIVE TokenizeRange(_, _, _, _)
TokenizeRange(ln, st, lo, hi) ==
    IF lo > hi \/ st.next > hi THEN st
    ELSE IF lo = hi THEN TokenizeStep(ln, st, lo)
    ELSE LET mid == (lo + hi) \div 2
         IN  TokenizeRange(ln, TokenizeRange(ln, st, lo, mid), mid + 1, hi)

\* A tokenizer that splits at every comma, quoted or not.
TokenizeIgnoringQuotes(ln) ==
    LET parts == Split(ln, ",")
    IN  [k \in DOMAIN parts |-> Trim(SelectSeq(parts[k], LAMBDA c : c # DQ))]

\* The loop, then values.push(current.trim()).
Tokenize(ln) ==
    LET end == TokenizeRange(ln, TokenizeStart, 1, Len(ln))
    IN  Append(end.values, Trim(end.current))

-----------------------------------------------------------------------------
(* JavaScript built-ins used by the row validation                         *)

\* A JavaScript number read from text: NaN, an infinity, or the decimal
\* mant * 10^exp with mant carrying no trailing zero, so that equal values are
\* equal records.  The cells drawn below have exponents far inside the range
\* of a double, where no literal rounds to zero or overflows.
NaN == [k |-> "nan", neg |-> FALSE, mant |-> 0, exp |-> 0]
Infinity(neg) == [k |-> "inf", neg |-> neg, mant |-> 0, exp |-> 0]

RECURSIVE Number(_, _, _)
Number(neg, mant, exp) ==
    IF mant = 0 THEN [k |-> "num", neg |-> neg, mant |-> 0, exp |-> 0]
    ELSE IF mant % 10 = 0 THEN Number(neg, mant \div 10, exp + 1)
    ELSE [k |-> "num", neg |-> neg, mant |-> mant, exp |-> exp]

\* An isNaN that never holds.
NeverNaN(n) == FALSE

\* isNaN(n)
IsNaN(n) == n.k = "nan"

\* n < 0 where the code has n <= 0.
BelowZero(n) ==
    \/ n.k = "inf" /\ n.neg
    \/ n.k = "num" /\ n.neg /\ n.mant > 0

\* n <= 0
AtMostZero(n) ==
    \/ n.k = "inf" /\ n.neg
    \/ n.k = "num" /\ (n.neg \/ n.mant = 0)

\* n > 0
IsPositive(n) ==
    \/ n.k = "inf" /\ ~n.neg
    \/ n.k = "num" /\ ~n.neg /\ n.mant > 0

\* How many digits s starts with, from position i on.
RECURSIVE DigitRun(_, _)
DigitRun(s, i) ==
    IF i <= Len(s) /\ IsDigit(s[i]) THEN 1 + DigitRun(s, i + 1) ELSE 0

RECURSIVE DigitsToInt(_)
DigitsToInt(ds) ==
    IF ds = <<>> THEN 0
    ELSE 10 * DigitsToInt(SubSeq(ds, 1, Len(ds) - 1)) + DigitVal(ds[Len(ds)])

InfinityWord == <<"I", "n", "f", "i", "n", "i", "t", "y">>

StartsWith(s, prefix) ==
    Len(s) >= Len(prefix) /\ SubSeq(s, 1, Len(prefix)) = prefix

\* parseFloat: leading white space is skipped, then the longest prefix that is
\* a decimal literal (sign, Infinity, digits, fraction, exponent) is the value;
\* whatever follows is ignored; no such prefix gives NaN.
ParseFloat(str) ==
    LET lead == {i \in DOMAIN str : str[i] \notin WhiteSpace}
        s    == IF lead = {} THEN <<>>
                ELSE SliceFrom(str, CHOOSE i \in lead : \A j \in lead : i <= j)
        signed == s # <<>> /\ s[1] \in {"+", "-"}
        neg  == s # <<>> /\ s[1] = "-"
        r    == IF signed THEN Tail(s) ELSE s
        n1   == DigitRun(r, 1)
        dot  == n1 + 1 <= Len(r) /\ r[n1 + 1] = "."
        n2   == IF dot THEN DigitRun(r, n1 + 2) ELSE 0
        p    == n1 + (IF dot THEN 1 + n2 ELSE 0)
        hasE == p + 1 <= Len(r) /\ r[p + 1] \in {"e", "E"}
        eSigned == hasE /\ p + 2 <= Len(r) /\ r[p + 2] \in {"+", "-"}
        eNeg == eSigned /\ r[p + 2] = "-"
        eAt  == p + 2 + (IF eSigned THEN 1 ELSE 0)
        ne   == IF hasE THEN DigitRun(r, eAt) ELSE 0
        e    == IF ne = 0 THEN 0
                ELSE (IF eNeg THEN -1 ELSE 1) * DigitsToInt(SubSeq(r, eAt, eAt + ne - 1))
        mant == DigitsToInt(SubSeq(r, 1, n1) \o (IF dot THEN SubSeq(r, n1 + 2, n1 + 1 + n2) ELSE <<>>))
    IN  IF StartsWith(r, InfinityWord) THEN Infinity(neg)
        ELSE IF n1 + n2 = 0 THEN NaN
        ELSE Number(neg, mant, e - n2)

\* A Date: its time value in days since 1970-01-01 UTC, or the invalid date
\* (time value NaN).
InvalidDate == [valid |-> FALSE, t |-> 0]
DateOf(t) == [valid |-> TRUE, t |-> t]

IsLeapYear(y) == (y % 4 = 0 /\ y % 100 # 0) \/ y % 400 = 0

DaysInMonth(y, m) ==
    IF m = 2 THEN (IF IsLeapYear(y) THEN 29 ELSE 28)
    ELSE IF m \in {4, 6, 9, 11} THEN 30 ELSE 31

\* Days from 1970-01-01 to the civil date y-m-d (proleptic Gregorian).
DaysFromCivil(y, m, d) ==
    LET yy  == IF m <= 2 THEN y - 1 ELSE y
        era == yy \div 400
        yoe == yy - era * 400
        mp  == IF m > 2 THEN m - 3 ELSE m + 9
        doy == (153 * mp + 2) \div 5 + d - 1
        doe == yoe * 365 + yoe \div 4 - yoe \div 100 + doy
    IN  era * 146097 + doe - 719468

\* new Date(string) for the date-only forms YYYY, YYYY-MM and YYYY-MM-DD of the
\* ECMAScript date-time format (read as UTC midnight), and for text that is no
\* date in any engine.  A day past the end of its month (02-30) is rolled into
\* the next month by V8 and is an invalid date elsewhere.  The date cells drawn
\* below are of these kinds; other formats are engine-specific heuristics.
DateParse(s, eng) ==
    LET n == Len(s)
        shaped ==
            /\ n \in {4, 7, 10}
            /\ \A i \in 1..n : IF i \in {5, 8} THEN s[i] = "-" ELSE IsDigit(s[i])
        y == DigitsToInt(SubSeq(s, 1, 4))
        m == IF n >= 7 THEN DigitsToInt(SubSeq(s, 6, 7)) ELSE 1
        d == IF n >= 10 THEN DigitsToInt(SubSeq(s, 9, 10)) ELSE 1
    IN  IF ~shaped THEN InvalidDate
        ELSE IF m < 1 \/ m > 12 \/ d < 1 \/ d > 31 THEN InvalidDate
        ELSE IF d > DaysInMonth(y, m) /\ eng # "v8" THEN InvalidDate
        ELSE DateOf(DaysFromCivil(y, m, 1) + d - 1)

-----------------------------------------------------------------------------
(* normalize                                                               *)

\* What a method call on undefined raises, carried as a value.
TypeError == <<"TypeError">>

\* !v for a string or undefined
Falsy(v) == v = Undefined \/ v = <<>>

\* v.trim()
MethodTrim(v) == IF v = Undefined \/ v = TypeError THEN TypeError ELSE Trim(v)

\* v.trim() where the code has v?.trim().
TrimOrRaise(v) == IF v = Undefined THEN TypeError ELSE Trim(v)

\* v?.trim()
OptionalTrim(v) == IF v = Undefined THEN Undefined ELSE Trim(v)

\* a ?? b where the code has a || b.
OrElseNullish(a, b) == IF a = Undefined THEN b ELSE a

\* a || b
OrElse(a, b) == IF Falsy(a) THEN b ELSE a

Unknown == <<"U", "n", "k", "n", "o", "w", "n">>

IsSeparator(c) == c \in WhiteSpace \cup {"/"}

\* s.split(/[\s/]+/): the pieces between maximal runs of separators; a
\* separator run at either end leaves an empty piece there.
RECURSIVE SplitRunsFrom(_, _, _)
SplitRunsFrom(s, i, piece) ==
    IF i > Len(s) THEN <<piece>>
    ELSE IF IsSeparator(s[i])
         THEN IF i > 1 /\ IsSeparator(s[i - 1])
              THEN SplitRunsFrom(s, i + 1, piece)
              ELSE <<piece>> \o SplitRunsFrom(s, i + 1, <<>>)
         ELSE SplitRunsFrom(s, i + 1, Append(piece, s[i]))

SplitRuns(s) == SplitRunsFrom(s, 1, <<>>)

\* w.charAt(0).toUpperCase() + w.slice(1)
Capitalize(w) == IF w = <<>> THEN <<>> ELSE <<CharToUpper(w[1])>> \o Tail(w)

\* A final pass that changes nothing.
WithoutBoundaryPass(s) == s

\* s.replace(/\b\w/g, c => c.toUpperCase())
UpperAtWordBoundaries(s) ==
    [i \in DOMAIN s |->
        IF IsWordChar(s[i]) /\ (i = 1 \/ ~IsWordChar(s[i - 1]))
        THEN CharToUpper(s[i]) ELSE s[i]]

\* The chain up to and including join(' ').
TitleCaseWords(trimmed) ==
    LET words == SplitRuns(ToLowerCase(trimmed))
    IN  Join([k \in DOMAIN words |-> Capitalize(words[k])], " ")

\* normalize without toLowerCase().
NormalizeKeepingCase(v) ==
    IF Falsy(v) THEN Unknown
    ELSE LET trimmed == MethodTrim(v) IN
         IF trimmed = TypeError THEN TypeError
         ELSE IF trimmed = <<>> THEN Unknown
         ELSE LET words == SplitRuns(trimmed)
              IN  UpperAtWordBoundaries(Join([k \in DOMAIN words |-> Capitalize(words[k])], " "))

Normalize(v) ==
    IF Falsy(v) THEN Unknown
    ELSE LET trimmed == MethodTrim(v) IN
         IF trimmed = TypeError THEN TypeError
         ELSE IF trimmed = <<>> THEN Unknown
         ELSE UpperAtWordBoundaries(TitleCaseWords(trimmed))

-----------------------------------------------------------------------------
(* processData                                                             *)

\* The column titles the code reads.
IDEA_BANK_ID == <<"I", "D", "E", "A", " ", "B", "A", "N", "K", " ", "I", "D">>
PROJECT_TITLE == <<"P", "R", "O", "J", "E", "C", "T", " ", "T", "I", "T", "L", "E">>
SUBSYSTEM == <<"S", "U", "B", "S", "Y", "S", "T", "E", "M">>
REGION == <<"R", "E", "G", "I", "O", "N">>
PLATFORM == <<"P", "L", "A", "T", "F", "O", "R", "M">>
PLANT == <<"P", "L", "A", "N", "T">>
FINAL_STATUS == <<"F", "I", "N", "A", "L", " ", "S", "T", "A", "T", "U", "S">>
SUBMIT_DATE == <<"S", "U", "B", "M", "I", "T", " ", "D", "A", "T", "E">>
REQUESTER_EMAIL == <<"R", "E", "Q", "U", "E", "S", "T", "E", "R", " ", "E", "M", "A", "I", "L">>
SCOPING_LEADER == <<"S", "C", "O", "P", "I", "N", "G", " ", "L", "E", "A", "D", "E", "R">>
TOTAL_SAVINGS == <<"T", "O", "T", "A", "L", " ", "S", "A", "V", "I", "N", "G", "S">>
LINK == <<"L", "I", "N", "K">>

UntitledProject == <<"U", "n", "t", "i", "t", "l", "e", "d", " ", "P", "r", "o", "j", "e", "c", "t">>

\* The submitter placeholder of each App version.
PlaceholderEmail(appv) ==
    IF appv = "app1"
    THEN <<"s", "y", "s", "t", "e", "m", "@", "e", "n", "t", "e", "r", "p", "r", "i", "s", "e", ".", "c", "o", "m">>
    ELSE <<"a", "n", "o", "n", "y", "m", "o", "u", "s", "@", "e", "n", "t", "e", "r", "p", "r", "i", "s", "e", ".", "c", "o", "m">>

\* headers.forEach((header, index) => row[header] = values[index]): a later
\* column of the same name overwrites an earlier one; a column past the end of
\* the values is set to undefined.
Row(headers, vals) ==
    [h \in Range(headers) |->
        LET last == CHOOSE i \in DOMAIN headers :
                        headers[i] = h /\ \A j \in DOMAIN headers : headers[j] = h => j <= i
        IN  IF last <= Len(vals) THEN vals[last] ELSE Undefined]

\* row[key]
Get(row, key) == IF key \in DOMAIN row THEN row[key] ELSE Undefined

\* What the map callback returns for a rejected line, and the marker of a
\* callback that raised.
Null == [null |-> TRUE]
Raised == [raised |-> TRUE]

\* The required-field test without its id part.
RequiredMissingButId(id, rawDate, rawSavings) == Falsy(rawDate) \/ Falsy(rawSavings)

\* !id || !rawDate || !rawSavings || id === "" || rawDate === "" || rawSavings === ""
RequiredMissing(id, rawDate, rawSavings) ==
    \/ Falsy(id) \/ Falsy(rawDate) \/ Falsy(rawSavings)
    \/ id = <<>> \/ rawDate = <<>> \/ rawSavings = <<>>

\* A date test that lets every date through.
NeverInvalidDate(d) == FALSE

\* isNaN(parsedDate.getTime())
IsInvalidDate(d) == ~d.valid

\* The Idea built from a row that passed the three tests; a method call on
\* undefined while building it raises.
Idea(row, id, savings, parsedDate, appv) ==
    [id            |-> id,
     title         |-> MethodTrim(OrElse(Get(row, PROJECT_TITLE), UntitledProject)),
     subsystem     |-> Normalize(Get(row, SUBSYSTEM)),
     region        |-> Normalize(Get(row, REGION)),
     platform      |-> Normalize(Get(row, PLATFORM)),
     plant         |-> Normalize(Get(row, PLANT)),
     status        |-> Normalize(Get(row, FINAL_STATUS)),
     date          |-> parsedDate,
     submitter     |-> MethodTrim(OrElse(Get(row, REQUESTER_EMAIL), PlaceholderEmail(appv))),
     scopingLeader |-> Normalize(Get(row, SCOPING_LEADER)),
     savings       |-> savings,
     link          |-> MethodTrim(OrElse(Get(row, LINK), <<>>))]

ReturnIdea(idea) ==
    IF \E f \in {"title", "subsystem", "region", "platform", "plant",
                 "status", "submitter", "scopingLeader", "link"} : idea[f] = TypeError
    THEN Raised
    ELSE idea

\* if (isNaN(parsedDate.getTime())) return null; then the Idea
CheckDate(row, id, savings, parsedDate, appv) ==
    IF IsInvalidDate(parsedDate) THEN Null
    ELSE ReturnIdea(Idea(row, id, savings, parsedDate, appv))

\* if (isNaN(savings) || savings <= 0) return null; then the date
CheckSavings(row, id, rawDate, savings, appv, eng) ==
    IF IsNaN(savings) \/ AtMostZero(savings) THEN Null
    ELSE CheckDate(row, id, savings, DateParse(rawDate, eng), appv)

\* The required-field test; then the savings
CheckRequired(row, id, rawDate, rawSavings, appv, eng) ==
    IF TypeError \in {id, rawDate, rawSavings} THEN Raised
    ELSE IF RequiredMissing(id, rawDate, rawSavings) THEN Null
    ELSE CheckSavings(row, id, rawDate, ParseFloat(StripMoney(rawSavings)), appv, eng)

\* The callback from its row on.
MapRow(row, appv, eng) ==
    CheckRequired(row, OptionalTrim(Get(row, IDEA_BANK_ID)), OptionalTrim(Get(row, SUBMIT_DATE)),
                  OptionalTrim(Get(row, TOTAL_SAVINGS)), appv, eng)

\* The map callback: one non-blank data line to an Idea, or null.
MapLine(headers, ln, appv, eng) == MapRow(Row(headers, Tokenize(ln)), appv, eng)

\* The call's outcome: the list returned, or threw when an exception escaped.
Returned(list) == [threw |-> FALSE, list |-> list]
Threw == [threw |-> TRUE, list |-> <<>>]

\* A final filter that keeps the null entries.
KeepNulls(mapped) == mapped

\* .filter(item => item !== null)
DropNulls(mapped) == SelectSeq(mapped, LAMBDA item : item # Null)

\* What the call gives for the mapped lines: an exception of a callback
\* escapes; otherwise the filtered list is returned.
Collect(mapped) ==
    IF \E k \in DOMAIN mapped : mapped[k] = Raised THEN Threw
    ELSE Returned(DropNulls(mapped))

\* The lines after the header line that are not blank, each mapped.
MapLines(lines, headers, appv, eng) ==
    LET dataLines == SelectSeq(Tail(lines), LAMBDA l : Len(Trim(l)) > 0)
    IN  [k \in DOMAIN dataLines |-> MapLine(headers, dataLines[k], appv, eng)]

\* lines[0].split(',').map(h => h.trim().replace(/^"|"$/g, ''))
Headers(cols) == [k \in DOMAIN cols |-> StripOuterQuotes(Trim(cols[k]))]

ProcessLines(lines, appv, eng) ==
    IF Len(lines) < 2 THEN Returned(<<>>)
    ELSE Collect(MapLines(lines, Headers(Split(lines[1], ",")), appv, eng))

ProcessData(text, appv, eng) == ProcessLines(Split(text, LF), appv, eng)

-----------------------------------------------------------------------------
(* The text handed to processData: the CSV export of a spreadsheet         *)

\* Bounds of the inputs drawn.
MaxRows == 3
MaxSavingsLen == 3
MaxLineLen == 5
MaxValLen == 4

\* All strings over an alphabet, up to a length.
StringsUpTo(alphabet, n) == UNION {[1..k -> alphabet] : k \in 0..n}

\* All sequences over a set, up to a length.
SeqsUpTo(S, n) == UNION {[1..k -> S] : k \in 0..n}

Sheet(header, quoted, rows, eol) ==
    [kind |-> "sheet", header |-> header, quoted |-> quoted, rows |-> rows,
     eol |-> eol, raw |-> <<>>]

\* Text that is no export of a sheet.
RawDoc(text) ==
    [kind |-> "raw", header |-> <<>>, quoted |-> FALSE, rows |-> <<>>,
     eol |-> "lf", raw |-> text]

\* A cell of the export: quoted, with its quotes doubled, when it holds a
\* comma, a quote or a line break.
CsvCell(v) ==
    IF \E i \in DOMAIN v : v[i] \in {",", DQ, LF, CR}
    THEN LET RECURSIVE Doubled(_)
             Doubled(w) == IF w = <<>> THEN <<>>
                           ELSE (IF w[1] = DQ THEN <<DQ, DQ>> ELSE <<w[1]>>) \o Doubled(Tail(w))
         IN  <<DQ>> \o Doubled(v) \o <<DQ>>
    ELSE v

CsvLine(cells) == Join([k \in DOMAIN cells |-> CsvCell(cells[k])], ",")

RECURSIVE JoinLines(_, _)
JoinLines(ls, eol) ==
    IF ls = <<>> THEN <<>>
    ELSE IF Len(ls) = 1 THEN ls[1]
    ELSE ls[1] \o eol \o JoinLines(Tail(ls), eol)

\* The exported text: the header line, then one line per row.
Export(d) ==
    IF d.kind = "raw" THEN d.raw
    ELSE LET head == Join([k \in DOMAIN d.header |->
                              IF d.quoted THEN <<DQ>> \o d.header[k] \o <<DQ>>
                              ELSE d.header[k]], ",")
             body == [k \in DOMAIN d.rows |-> CsvLine(d.rows[k])]
         IN  JoinLines(<<head>> \o body, IF d.eol = "crlf" THEN <<CR, LF>> ELSE <<LF>>)

FullHeader ==
    <<IDEA_BANK_ID, PROJECT_TITLE, SUBSYSTEM, REGION, PLATFORM, PLANT, FINAL_STATUS,
      SUBMIT_DATE, REQUESTER_EMAIL, SCOPING_LEADER, TOTAL_SAVINGS, LINK>>

RequiredHeader == <<IDEA_BANK_ID, SUBMIT_DATE, TOTAL_SAVINGS>>

ShortHeader == <<IDEA_BANK_ID, PROJECT_TITLE, SUBMIT_DATE, TOTAL_SAVINGS>>

RequiredNames == {IDEA_BANK_ID, SUBMIT_DATE, TOTAL_SAVINGS}

CategoricalNames == {SUBSYSTEM, REGION, PLATFORM, PLANT, FINAL_STATUS, SCOPING_LEADER}

Without(header, name) == SelectSeq(header, LAMBDA h : h # name)

\* The id column titled in lower case.
LowerIdHeader == [k \in DOMAIN FullHeader |->
                     IF FullHeader[k] = IDEA_BANK_ID THEN ToLowerCase(IDEA_BANK_ID)
                     ELSE FullHeader[k]]

\* The header rows drawn: <<names, quoted>>.
HeaderForms ==
    {<<FullHeader, FALSE>>, <<RequiredHeader, FALSE>>, <<RequiredHeader, TRUE>>,
     <<Without(FullHeader, IDEA_BANK_ID), FALSE>>, <<Without(FullHeader, SUBMIT_DATE), FALSE>>,
     <<Without(FullHeader, TOTAL_SAVINGS), FALSE>>, <<LowerIdHeader, FALSE>>}

IdCells == {<<"I", "B", "-", "1">>, <<>>, <<" ">>}

Date20240301 == <<"2", "0", "2", "4", "-", "0", "3", "-", "0", "1">>
NotADate == <<"n", "o", "t", " ", "a", " ", "d", "a", "t", "e">>
DateCells == {Date20240301, NotADate, <<>>, <<"2", "0", "2", "4", "-", "0", "2", "-", "3", "0">>}

SavingsCells == {<<"$", "1", ",", "2", "0", "0">>, <<"$", "0">>, <<"-", "5">>, <<>>, <<"a", "b", "c">>}

MoreSavingsCells == {<<"1", "2", "a", "b", "c">>, InfinityWord, <<"-", "I", "n", "f", "i", "n", "i", "t", "y">>, <<"1", "e", "2">>,
                     <<"0", ".", "5", "0">>, <<"$", "1", ",", "2", "5", "0", ",", "0", "0", "0">>, <<"1", ".", "5", "e", "-", "3">>}

SavingsAlphabet == {"$", ",", "5", "0", "-", ".", " ", "x"}

\* The optional cells of a row: filled, empty, or white space only.
OptionalCell(name, fill) ==
    IF fill = "blank" THEN <<>>
    ELSE IF fill = "spaces" THEN <<" ", " ">>
    ELSE IF name = PROJECT_TITLE THEN <<"5", "\"", " ", "c", "l", "i", "p", ",", " ", "v", "2">>
    ELSE IF name = SUBSYSTEM THEN <<"c", "h", "a", "s", "s", "i", "s", "/", "b", "o", "d", "y">>
    ELSE IF name = REGION THEN <<"n", "a">>
    ELSE IF name = PLATFORM THEN <<"F", "S", "R">>
    ELSE IF name = PLANT THEN <<"p", "l", "a", "n", "t", "-", "2">>
    ELSE IF name = FINAL_STATUS THEN <<"I", "n", " ", " ", "r", "e", "v", "i", "e", "w">>
    ELSE IF name = REQUESTER_EMAIL THEN <<"a", "@", "b", ".", "c", "o">>
    ELSE IF name = SCOPING_LEADER THEN <<"j", " ", "o", "'", "n", "e", "i", "l">>
    ELSE <<"x", ".", "c", "o", "/", "1">>

Fills == {"filled", "blank", "spaces"}

\* The row of a sheet under a header, from its three required cells and the
\* fill of its optional ones.
RowOf(header, idc, datec, savc, fill) ==
    [k \in DOMAIN header |->
        IF header[k] = IDEA_BANK_ID \/ header[k] = ToLowerCase(IDEA_BANK_ID) THEN idc
        ELSE IF header[k] = SUBMIT_DATE THEN datec
        ELSE IF header[k] = TOTAL_SAVINGS THEN savc
        ELSE OptionalCell(header[k], fill)]

GoodId == <<"I", "B", "-", "1">>
GoodSavings == <<"$", "1", ",", "2", "0", "0">>

\* One data row: every header form with every mix of required and optional cells.
OneRowDocs ==
    {Sheet(hf[1], hf[2], <<RowOf(hf[1], idc, datec, savc, fill)>>, "lf") :
        hf \in HeaderForms, idc \in IdCells, datec \in DateCells,
        savc \in SavingsCells, fill \in Fills}

\* One data row whose savings cell runs over every short string.
SavingsDocs ==
    {Sheet(RequiredHeader, FALSE, <<RowOf(RequiredHeader, GoodId, Date20240301, savc, "blank")>>, "lf") :
        savc \in MoreSavingsCells \cup StringsUpTo(SavingsAlphabet, MaxSavingsLen)}

\* One data row cut short after its first n cells.
RaggedDocs ==
    {Sheet(FullHeader, FALSE,
           <<SubSeq(RowOf(FullHeader, GoodId, Date20240301, GoodSavings, "filled"), 1, n)>>, eol) :
        n \in 0..Len(FullHeader), eol \in {"lf", "crlf"}}

\* The rows of the many-row sheets, under ShortHeader: two valid rows, a row
\* without id, an empty line and a row whose savings are zero.
RowPool ==
    {<<<<"I", "B", "-", "1">>, <<"A", "l", "p", "h", "a">>, Date20240301, <<"1", "0", "0">>>>,
     <<<<"I", "B", "-", "2">>, <<>>, <<"2", "0", "2", "3", "-", "1", "2", "-", "3", "1">>, <<"$", "2", ",", "5", "0", "0", ".", "5", "0">>>>,
     <<<<>>, <<"N", "o", " ", "i", "d">>, Date20240301, <<"3", "0", "0">>>>,
     <<>>,
     <<<<"I", "B", "-", "5">>, <<"Z", "e", "r", "o">>, Date20240301, <<"$", "0">>>>}

ManyRowDocs ==
    {Sheet(ShortHeader, FALSE, rows, eol) :
        rows \in SeqsUpTo(RowPool, MaxRows), eol \in {"lf", "crlf"}}

RawDocs ==
    {RawDoc(<<>>), RawDoc(<<"h", "e", "l", "l", "o">>), RawDoc(<<"a", ",", "b", ",", "c">>), RawDoc(<<LF>>),
     RawDoc(<<"h", "e", "l", "l", "o", "\n", "w", "o", "r", "l", "d">>), RawDoc(<<"{", "\"", "a", "\"", ":", " ", "1", "}", "\n", "[", "2", "]", "\n">>),
     RawDoc(Join(RequiredHeader, ","))}

Docs == OneRowDocs \cup SavingsDocs \cup RaggedDocs \cup ManyRowDocs \cup RawDocs

AppVersions == {"app1", "app2"}
Engines == {"v8", "other"}

\* The lines handed to the tokenizer alone.
QuotedExample == <<"A", ",", "\"", "B", ",", " ", "C", "\"", ",", "\"", "D", "\"", "\"", "E", "\"", ",", "F">>
Lines == StringsUpTo({"A", ",", DQ, " "}, MaxLineLen) \cup {QuotedExample}

\* The values handed to normalize alone.
ChassisBody == <<"c", "h", "a", "s", "s", "i", "s", "/", "b", "o", "d", "y">>
Plastics == <<" ", " ", "P", "L", "A", "S", "T", "I", "C", "S", " ", " ">>
NormalizeInputs ==
    StringsUpTo({"a", "B", "/", " ", "-"}, MaxValLen)
        \cup {Undefined, ChassisBody, Plastics, <<"\t">>, <<"o", "'", "b", "r", "i", "e", "n">>, <<"r", "_", "2", " ", "d", "2">>}

-----------------------------------------------------------------------------
(* The calls                                                               *)

\* The Dashboard that is not rendered.
Unmounted == [mounted |-> FALSE]

\* App before any load, in a build the calls below do not depend on.
AppAtRest ==
    /\ data = <<>> /\ loading = FALSE /\ error = Null
    /\ variant = "dashboard" /\ tz = 0 /\ dash = Unmounted
    /\ clicks = 0 /\ loads = 0

\* One call of processData on the export of a sheet.
Init ==
    /\ doc \in Docs
    /\ csvText = Export(doc)
    /\ app \in AppVersions
    /\ engine \in Engines
    /\ pc = "idle"
    /\ outcome = Returned(<<>>)
    /\ line = <<>> /\ values = <<>> /\ val = Undefined /\ normalized = <<>>
    /\ AppAtRest

ProcessDataCall ==
    /\ pc = "idle"
    /\ outcome' = ProcessData(csvText, app, engine)
    /\ pc' = "returned"
    /\ UNCHANGED <<doc, csvText, app, engine, line, values, val, normalized>>
    /\ UNCHANGED appVars

Next == ProcessDataCall

Spec == Init /\ [][Next]_vars

\* The tokenizer on one line.
TokInit ==
    /\ line \in Lines
    /\ values = <<>>
    /\ pc = "idle"
    /\ doc = RawDoc(<<>>) /\ csvText = <<>> /\ app = "app1" /\ engine = "v8"
    /\ outcome = Returned(<<>>) /\ val = Undefined /\ normalized = <<>>
    /\ AppAtRest

TokenizeCall ==
    /\ pc = "idle"
    /\ values' = Tokenize(line)
    /\ pc' = "returned"
    /\ UNCHANGED <<doc, csvText, app, engine, outcome, line, val, normalized>>
    /\ UNCHANGED appVars

TokNext == TokenizeCall

TokSpec == TokInit /\ [][TokNext]_vars

\* normalize on one value.
NormInit ==
    /\ val \in NormalizeInputs
    /\ normalized = <<>>
    /\ pc = "idle"
    /\ doc = RawDoc(<<>>) /\ csvText = <<>> /\ app = "app1" /\ engine = "v8"
    /\ outcome = Returned(<<>>) /\ line = <<>> /\ values = <<>>
    /\ AppAtRest

NormalizeCall ==
    /\ pc = "idle"
    /\ normalized' = Normalize(val)
    /\ pc' = "returned"
    /\ UNCHANGED <<doc, csvText, app, engine, outcome, line, values, val>>
    /\ UNCHANGED appVars

NormNext == NormalizeCall

NormSpec == NormInit /\ [][NormNext]_vars

-----------------------------------------------------------------------------
(* Properties of processData                                               *)

Done == pc = "returned"

IsSheet == doc.kind = "sheet"

\* The cell of row r in the column titled name: undefined when the sheet has
\* no such column or the row ends before it.
CellAt(r, name) ==
    LET at == {i \in DOMAIN doc.header : doc.header[i] = name}
    IN  IF at = {} THEN Undefined
        ELSE LET i == CHOOSE i \in at : \A j \in at : j <= i
             IN  IF i <= Len(doc.rows[r]) THEN doc.rows[r][i] ELSE Undefined

\* Missing, or empty after trimming.
Blank(cell) == cell = Undefined \/ Trim(cell) = <<>>

SavingsOf(cell) == ParseFloat(StripMoney(cell))

\* The three validation rules, stated on the cells of row r.
ValidRow(r) ==
    /\ \A name \in RequiredNames : ~Blank(CellAt(r, name))
    /\ IsPositive(SavingsOf(CellAt(r, TOTAL_SAVINGS)))
    /\ DateParse(Trim(CellAt(r, SUBMIT_DATE)), engine).valid

ValidRows == {r \in DOMAIN doc.rows : ValidRow(r)}

\* C1: every record of the returned list has a non-empty id, savings strictly
\* greater than 0 and a date whose time value is not NaN.
C1_RecordsValid ==
    Done =>
        \A k \in DOMAIN outcome.list :
            LET idea == outcome.list[k]
            IN  /\ idea.id # Undefined
                /\ idea.id # <<>>
                /\ IsPositive(idea.savings)
                /\ idea.date.valid

\* A sheet with accepted and rejected rows was parsed.
C1_Witness ==
    /\ Done /\ IsSheet
    /\ Len(outcome.list) >= 2
    /\ Len(outcome.list) < Len(doc.rows)

\* C2: a row whose id, submit-date or total-savings value is missing (no such
\* column, or the row ends before it) or empty after trimming gives no record;
\* so a header row without one of the three exact names gives the empty list.
C2_MissingRequiredRejected ==
    Done /\ IsSheet =>
        /\ Len(outcome.list) <=
               Cardinality({r \in DOMAIN doc.rows :
                               \A name \in RequiredNames : ~Blank(CellAt(r, name))})
        /\ (\E name \in RequiredNames : name \notin Range(doc.header)) => outcome.list = <<>>
        /\ \A r \in DOMAIN doc.rows :
               (Len(doc.rows) = 1 /\ \E name \in RequiredNames : Blank(CellAt(r, name)))
                   => outcome.list = <<>>

\* The id column is titled in lower case, the row itself is complete, and
\* nothing is returned.
C2_Witness ==
    /\ Done /\ IsSheet
    /\ doc.header = LowerIdHeader
    /\ doc.rows = <<RowOf(LowerIdHeader, GoodId, Date20240301, GoodSavings, "filled")>>
    /\ outcome.list = <<>>

\* C3: a row whose savings cell, with every $ and comma removed, is no number
\* or a number <= 0 gives no record; "$0" and "-5" are such cells.
C3_BadSavingsRejected ==
    Done /\ IsSheet /\ Len(doc.rows) = 1 =>
        LET cell == CellAt(1, TOTAL_SAVINGS)
        IN  /\ (cell # Undefined /\ ~IsPositive(SavingsOf(cell))) => outcome.list = <<>>
            /\ cell \in {<<"$", "0">>, <<"-", "5">>} => outcome.list = <<>>

\* A row with id and date in order and the savings cell "$0" was dropped.
C3_Witness ==
    /\ Done /\ IsSheet /\ Len(doc.rows) = 1
    /\ CellAt(1, TOTAL_SAVINGS) = <<"$", "0">>
    /\ CellAt(1, IDEA_BANK_ID) = GoodId
    /\ CellAt(1, SUBMIT_DATE) = Date20240301
    /\ outcome.list = <<>>

\* C4: with id and savings in order, a row whose submit-date cell is no
\* calendar date gives no record, and a row whose cell parses gives one record
\* carrying the parsed date: 2024-03-01 gives March 1, 2024 (day 19783 of the
\* epoch).
C4_DateDecides ==
    (/\ Done /\ IsSheet /\ Len(doc.rows) = 1
     /\ ~Blank(CellAt(1, IDEA_BANK_ID))
     /\ ~Blank(CellAt(1, TOTAL_SAVINGS))
     /\ IsPositive(SavingsOf(CellAt(1, TOTAL_SAVINGS)))
     /\ CellAt(1, SUBMIT_DATE) # Undefined) =>
        LET cell   == CellAt(1, SUBMIT_DATE)
            parsed == DateParse(Trim(cell), engine)
        IN  /\ ~parsed.valid => outcome.list = <<>>
            /\ parsed.valid => Len(outcome.list) = 1 /\ outcome.list[1].date = parsed
            /\ cell = NotADate => outcome.list = <<>>
            /\ cell = Date20240301 =>
                   Len(outcome.list) = 1 /\ outcome.list[1].date = [valid |-> TRUE, t |-> 19783]

\* The row dated 2024-03-01 was accepted with that date.
C4_Witness ==
    /\ Done /\ IsSheet /\ Len(doc.rows) = 1
    /\ CellAt(1, SUBMIT_DATE) = Date20240301
    /\ Len(outcome.list) = 1
    /\ outcome.list[1].date.t = 19783

\* The ids of the valid rows, in sheet order.
RECURSIVE ValidIdsFrom(_)
ValidIdsFrom(r) ==
    IF r > Len(doc.rows) THEN <<>>
    ELSE (IF ValidRow(r) THEN <<Trim(CellAt(r, IDEA_BANK_ID))>> ELSE <<>>) \o ValidIdsFrom(r + 1)

\* C5: the returned list holds exactly the records of the data lines that pass
\* validation, in the order of those lines, and no null entry; its length is
\* the number of accepted lines.
C5_OrderAndLength ==
    Done /\ IsSheet =>
        /\ \A k \in DOMAIN outcome.list : outcome.list[k] # Null
        /\ Len(outcome.list) = Cardinality(ValidRows)
        /\ [k \in DOMAIN outcome.list |-> outcome.list[k].id] = ValidIdsFrom(1)

\* Three data rows, the middle one without id: two records, first row first.
C5_Witness ==
    /\ Done /\ IsSheet
    /\ Len(doc.rows) = 3
    /\ ValidRows = {1, 3}
    /\ Blank(CellAt(2, IDEA_BANK_ID))
    /\ Len(outcome.list) = 2
    /\ outcome.list[1].id = CellAt(1, IDEA_BANK_ID)
    /\ outcome.list[2].id = CellAt(3, IDEA_BANK_ID)
    /\ outcome.list[1].id # outcome.list[2].id

\* Does sub occur in s?
Contains(s, sub) ==
    \E i \in 1..(Len(s) - Len(sub) + 1) : SubSeq(s, i, i + Len(sub) - 1) = sub

\* The text before the first line feed.
FirstLine(text) ==
    LET at == {i \in DOMAIN text : text[i] = LF}
    IN  IF at = {} THEN text
        ELSE SubSeq(text, 1, (CHOOSE i \in at : \A j \in at : i <= j) - 1)

\* C8: the call returns a list and raises nothing, whatever the text; text
\* of fewer than two lines, and text whose first line lacks one of the
\* required column titles, give the empty list.
C8_NeverRaises ==
    Done =>
        /\ ~outcome.threw
        /\ (\A i \in DOMAIN csvText : csvText[i] # LF) => outcome.list = <<>>
        /\ (\E name \in RequiredNames : ~Contains(FirstLine(csvText), name))
               => outcome.list = <<>>

\* Two lines of text that is no sheet export were parsed to the empty list.
C8_Witness ==
    /\ Done /\ ~IsSheet
    /\ \E i \in DOMAIN csvText : csvText[i] = LF
    /\ \E i \in DOMAIN csvText : csvText[i] \notin WhiteSpace
    /\ ~outcome.threw
    /\ outcome.list = <<>>

\* The record field fed by each categorical column.
CategoricalField(name) ==
    IF name = SUBSYSTEM THEN "subsystem"
    ELSE IF name = REGION THEN "region"
    ELSE IF name = PLATFORM THEN "platform"
    ELSE IF name = PLANT THEN "plant"
    ELSE IF name = FINAL_STATUS THEN "status"
    ELSE "scopingLeader"

\* C9: a row that passes the id, date and savings rules gives a record
\* whatever its optional cells are; a blank or absent title gives "Untitled
\* Project", a blank or absent link the empty string, a blank or absent
\* requester e-mail the placeholder address, a blank or absent categorical
\* cell "Unknown"; title and submitter of a record are never empty.
C9_OptionalDefaults ==
    Done =>
        /\ \A k \in DOMAIN outcome.list :
               outcome.list[k].title # <<>> /\ outcome.list[k].submitter # <<>>
        /\ (IsSheet /\ Len(doc.rows) = 1 /\ ValidRow(1)) =>
               /\ Len(outcome.list) = 1
               /\ Blank(CellAt(1, PROJECT_TITLE)) => outcome.list[1].title = UntitledProject
               /\ Blank(CellAt(1, LINK)) => outcome.list[1].link = <<>>
               /\ Blank(CellAt(1, REQUESTER_EMAIL)) =>
                      outcome.list[1].submitter =
                          (IF app = "app1"
                           THEN <<"s", "y", "s", "t", "e", "m", "@", "e", "n", "t", "e", "r", "p", "r", "i", "s", "e", ".", "c", "o", "m">>
                           ELSE <<"a", "n", "o", "n", "y", "m", "o", "u", "s", "@", "e", "n", "t", "e", "r", "p", "r", "i", "s", "e", ".", "c", "o", "m">>)
               /\ \A name \in CategoricalNames :
                      Blank(CellAt(1, name)) => outcome.list[1][CategoricalField(name)] = Unknown

\* A valid row whose optional cells are all present but blank was accepted
\* with the defaults.
C9_Witness ==
    /\ Done /\ IsSheet /\ Len(doc.rows) = 1
    /\ doc.header = FullHeader
    /\ CellAt(1, PROJECT_TITLE) = <<" ", " ">>
    /\ Len(outcome.list) = 1
    /\ outcome.list[1].title = UntitledProject
    /\ outcome.list[1].status = Unknown
    /\ outcome.list[1].link = <<>>

-----------------------------------------------------------------------------
(* Properties of the tokenizer                                             *)

\* The first position of the run of quotes that position p of the line is in.
QuoteRunStart(p) ==
    CHOOSE s \in 1..p :
        /\ \A q \in s..p : line[q] = DQ
        /\ s = 1 \/ line[s - 1] # DQ

\* A quote left over after the quotes of its run are paired off from the
\* left: the last quote of a run of odd length.
OpensOrCloses(p) ==
    /\ line[p] = DQ
    /\ p = Len(line) \/ line[p + 1] # DQ
    /\ (p - QuoteRunStart(p)) % 2 = 0

\* Position p lies outside quotes: an even number of opening and closing
\* quotes lie before it.
OutsideQuotes(p) == Cardinality({q \in 1..(p - 1) : OpensOrCloses(q)}) % 2 = 0

SplittingCommas == {p \in DOMAIN line : line[p] = "," /\ OutsideQuotes(p)}

\* The characters of positions lo..hi that make it into the field: everything
\* but quotes, and the second quote of every pair.
FieldText(lo, hi) ==
    LET kept == SelectSeq([k \in 1..(hi - lo + 1) |-> lo + k - 1],
                          LAMBDA p : line[p] # DQ \/ (p - QuoteRunStart(p)) % 2 = 1)
    IN  Trim([k \in DOMAIN kept |-> line[kept[k]]])

\* The k-th splitting comma; position 0 and the position after the line bound
\* the first and the last field.
FieldBound(k) ==
    IF k = 0 THEN 0
    ELSE IF k = Cardinality(SplittingCommas) + 1 THEN Len(line) + 1
    ELSE CHOOSE p \in SplittingCommas : Cardinality({q \in SplittingCommas : q <= p}) = k

\* C6: the tokenizer splits the line at the commas outside quotes and only
\* there, so it gives one field more than there are such commas; each field is
\* its stretch of the line without the delimiting quotes, with every pair of
\* adjacent quotes turned into one quote, trimmed; the last field is always
\* pushed.  The line A,"B, C","D""E",F gives A | B, C | D"E | F.
C6_Tokenizer ==
    Done =>
        /\ Len(values) = 1 + Cardinality(SplittingCommas)
        /\ values = [k \in 1..(Cardinality(SplittingCommas) + 1) |->
                        FieldText(FieldBound(k - 1) + 1, FieldBound(k) - 1)]
        /\ line = QuotedExample =>
               values = <<<<"A">>, <<"B", ",", " ", "C">>, <<"D", "\"", "E">>, <<"F">>>>

\* The example line was split into its four fields.
C6_Witness ==
    /\ Done
    /\ line = QuotedExample
    /\ Len(values) = 4
    /\ values[2] = <<"B", ",", " ", "C">>

-----------------------------------------------------------------------------
(* Properties of normalize                                                 *)

IsBlankValue == val = Undefined \/ Trim(val) = <<>>

\* The trimmed, lower-cased value with every run of white space and slashes
\* turned into one space.
Collapsed ==
    LET low  == ToLowerCase(Trim(val))
        kept == SelectSeq([k \in DOMAIN low |-> k],
                          LAMBDA p : ~IsSeparator(low[p]) \/ p = 1 \/ ~IsSeparator(low[p - 1]))
    IN  [k \in DOMAIN kept |-> IF IsSeparator(low[kept[k]]) THEN " " ELSE low[kept[k]]]

\* C7 as claimed: "Unknown" for a missing or blank value, and otherwise the
\* value trimmed, lower-cased, split on runs of white space and slashes, each
\* word given an upper-case first letter, joined with spaces.
C7_AsClaimed ==
    Done => normalized = (IF IsBlankValue THEN Unknown ELSE TitleCaseWords(Trim(val)))

\* C7, amended: "Unknown" for a missing or blank value; otherwise the value
\* trimmed, lower-cased, its runs of white space and slashes turned into one
\* space each, and every letter upper-cased that starts the text or follows a
\* character other than a letter, a digit or an underscore, so also the letter
\* after a hyphen or an apostrophe.  "chassis/body" gives "Chassis Body" and
\* "  PLASTICS  " gives "Plastics".
C7_Normalize ==
    Done =>
        /\ IsBlankValue => normalized = Unknown
        /\ ~IsBlankValue =>
               normalized =
                   [i \in DOMAIN Collapsed |->
                       IF IsWordChar(Collapsed[i]) /\ (i = 1 \/ ~IsWordChar(Collapsed[i - 1]))
                       THEN CharToUpper(Collapsed[i]) ELSE Collapsed[i]]
        /\ val = ChassisBody => normalized = <<"C", "h", "a", "s", "s", "i", "s", " ", "B", "o", "d", "y">>
        /\ val = Plastics => normalized = <<"P", "l", "a", "s", "t", "i", "c", "s">>
        /\ val = <<>> => normalized = Unknown

\* A value with a hyphen inside a word was normalized: the letter after the
\* hyphen came out in upper case.
C7_Witness ==
    /\ Done
    /\ val = <<"a", "-", "B", "a">>
    /\ normalized = <<"A", "-", "B", "a">>

-----------------------------------------------------------------------------
(* JavaScript built-ins used by Dashboard                                  *)

MinutesPerDay == 1440

\* The civil year of a day number (days since 1970-01-01, proleptic Gregorian).
YearOfDay(d) ==
    LET z   == d + 719468
        era == z \div 146097
        doe == z - era * 146097
        yoe == (doe - doe \div 1460 + doe \div 36524 - doe \div 146096) \div 365
        doy == doe - (365 * yoe + yoe \div 4 - yoe \div 100)
        mp  == (5 * doy + 2) \div 153
    IN  yoe + era * 400 + (IF mp < 10 THEN 0 ELSE 1)

\* A Date's time value in minutes; the Dates of processData are whole days.
MinutesOf(date) == date.t * MinutesPerDay

\* date.getFullYear(): the year of the date in the browser's time zone.
GetFullYear(date, zone) == YearOfDay((MinutesOf(date) + zone) \div MinutesPerDay)

\* end.setHours(23, 59, 59, 999): the last minute of end's day in the browser's
\* time zone, as minutes since the epoch.  A Date of processData lies on a
\* whole minute, so it is <= the last millisecond of that minute exactly when
\* it is <= the minute.
SetHoursEndOfDay(minutes, zone) ==
    ((minutes + zone) \div MinutesPerDay) * MinutesPerDay + (MinutesPerDay - 1) - zone

\* array.includes(v)
Includes(arr, v) == \E i \in DOMAIN arr : arr[i] = v

\* s.includes(term): term is a substring of s.
StringIncludes(s, term) ==
    \E i \in 0..(Len(s) - Len(term)) : SubSeq(s, i + 1, i + Len(term)) = term

\* Array.from(new Set(arr)): the first occurrence of every value, in order.
FirstOccurrences(arr) ==
    SelectSeq([i \in DOMAIN arr |-> i], LAMBDA i : \A j \in 1..(i - 1) : arr[j] # arr[i])

DistinctValues(arr) == [k \in DOMAIN FirstOccurrences(arr) |-> arr[FirstOccurrences(arr)[k]]]

\* A property name that is an array index ("0", "7", "12"): Object.entries
\* lists such keys first, in numeric order.  (Names of up to nine digits; the
\* values drawn below have no longer run of digits.)
IsArrayIndex(key) ==
    /\ key # <<>> /\ Len(key) <= 9
    /\ \A i \in DOMAIN key : IsDigit(key[i])
    /\ (Len(key) = 1 \/ key[1] # "0")

\* 10^n
RECURSIVE Pow10(_)
Pow10(n) == IF n = 0 THEN 1 ELSE 10 * Pow10(n - 1)

\* The mantissa of a finite number at the exponent e <= its own, signed.
MantAt(n, e) == (IF n.neg THEN -1 ELSE 1) * n.mant * Pow10(n.exp - e)

Min(i, j) == IF i <= j THEN i ELSE j

\* a - b < 0 (false when a - b is NaN, as for Infinity - Infinity)
NumLess(a, b) ==
    IF a.k = "nan" \/ b.k = "nan" THEN FALSE
    ELSE IF a.k = "inf" THEN a.neg /\ ~(b.k = "inf" /\ b.neg)
    ELSE IF b.k = "inf" THEN ~b.neg
    ELSE MantAt(a, Min(a.exp, b.exp)) < MantAt(b, Min(a.exp, b.exp))

\* a + b, exact on the decimals drawn (their sums are far below 2^53).
NumAdd(a, b) ==
    IF a.k = "nan" \/ b.k = "nan" THEN NaN
    ELSE IF a.k = "inf" /\ b.k = "inf" THEN (IF a.neg = b.neg THEN a ELSE NaN)
    ELSE IF a.k = "inf" THEN a
    ELSE IF b.k = "inf" THEN b
    ELSE LET e == Min(a.exp, b.exp)
             m == MantAt(a, e) + MantAt(b, e)
         IN  Number(m < 0, IF m < 0 THEN -m ELSE m, e)

\* The number of an integer >= 0.
NumOf(i) == Number(FALSE, i, 0)

\* A comparator that also puts an entry before one of equal key.
EntryBeforeOrEqual(x, y, desc) == IF desc THEN ~NumLess(x.key, y.key) ELSE ~NumLess(y.key, x.key)

\* Array.prototype.sort, which is stable, on entries [key, item] under the
\* comparator (a, b) => a.key - b.key, or b.key - a.key when desc: an entry
\* moves in front of those before it that the comparator puts it before.
EntryBefore(x, y, desc) == IF desc THEN NumLess(y.key, x.key) ELSE NumLess(x.key, y.key)

RECURSIVE InsertSorted(_, _, _)
InsertSorted(sorted, x, desc) ==
    IF sorted = <<>> THEN <<x>>
    ELSE IF EntryBefore(x, sorted[Len(sorted)], desc)
         THEN Append(InsertSorted(SubSeq(sorted, 1, Len(sorted) - 1), x, desc), sorted[Len(sorted)])
         ELSE Append(sorted, x)

RECURSIVE StableSort(_, _)
StableSort(arr, desc) ==
    IF arr = <<>> THEN <<>>
    ELSE InsertSorted(StableSort(SubSeq(arr, 1, Len(arr) - 1), desc), arr[Len(arr)], desc)

\* The items of entries.
Items(entries) == [i \in DOMAIN entries |-> entries[i].item]

\* Object.entries' key order for keys inserted in the order of arr: the array
\* indices ascending, then the other keys in insertion order.
EntryKeys(arr) ==
    Items(StableSort([i \in DOMAIN SelectSeq(DistinctValues(arr), IsArrayIndex) |->
                         [key  |-> NumOf(DigitsToInt(SelectSeq(DistinctValues(arr), IsArrayIndex)[i])),
                          item |-> SelectSeq(DistinctValues(arr), IsArrayIndex)[i]]], FALSE))
        \o SelectSeq(DistinctValues(arr), LAMBDA k : ~IsArrayIndex(k))

-----------------------------------------------------------------------------
(* Dashboard: options, default filters and the views                       *)

\* The four Dashboard versions of the repository.
Variants == {"dashboard", "part_001", "part_002", "part_003"}

\* The versions that filter by year, and those of the earlier layout.
YearVariants == {"dashboard", "part_002", "part_003"}
PresetVariants == {"dashboard", "part_002"}

Chassis == <<"C", "h", "a", "s", "s", "i", "s">>
Packaging == <<"P", "a", "c", "k", "a", "g", "i", "n", "g">>
Fsr == <<"F", "s", "r">>
Bi == <<"B", "i">>
Ct == <<"C", "t">>
Mwo == <<"M", "w", "o">>
Wo == <<"W", "o">>
RejectedWord == <<"r", "e", "j", "e", "c", "t", "e", "d">>
UncheckedWord == <<"u", "n", "c", "h", "e", "c", "k", "e", "d">>
UnknownWord == <<"u", "n", "k", "n", "o", "w", "n">>
RejectWord == <<"r", "e", "j", "e", "c", "t">>
Date20260101 == <<"2", "0", "2", "6", "-", "0", "1", "-", "0", "1">>

\* data.map(d => d[key])
Column(d, key) == [i \in DOMAIN d |-> d[i][key]]

\* How many elements of arr equal v.
CountOf(arr, v) == Cardinality({i \in DOMAIN arr : arr[i] = v})

\* getUniqueOptions: [name, count] for every value of the field, the larger
\* counts first, equal counts in Object.entries order.
CountEntries(col, keys) ==
    [k \in DOMAIN keys |-> [key |-> NumOf(CountOf(col, keys[k])), item |-> <<keys[k], CountOf(col, keys[k])>>]]

GetUniqueOptions(d, key) ==
    Items(StableSort(CountEntries(Column(d, key), EntryKeys(Column(d, key))), TRUE))

\* opts.map(o => o[0])
OptionNames(opts) == [i \in DOMAIN opts |-> opts[i][1]]

\* data.map(d => d.date.getFullYear()), distinct, ascending.
YearEntries(years) == [i \in DOMAIN years |-> [key |-> NumOf(years[i]), item |-> years[i]]]

AvailableYears(d, zone) ==
    Items(StableSort(YearEntries(DistinctValues([i \in DOMAIN d |-> GetFullYear(d[i].date, zone)])), FALSE))

\* The statuses selected when the Dashboard mounts.
KeepStatus(s, v) ==
    IF v \in PresetVariants
    THEN /\ ~StringIncludes(ToLowerCase(s), RejectedWord)
         /\ ~StringIncludes(ToLowerCase(s), UncheckedWord)
         /\ ToLowerCase(s) # UnknownWord
    ELSE ~StringIncludes(ToLowerCase(s), RejectWord)

AllStatuses(d, v) ==
    IF v \in PresetVariants THEN DistinctValues(Column(d, "status"))
    ELSE OptionNames(GetUniqueOptions(d, "status"))

DefaultStatuses(d, v) == SelectSeq(AllStatuses(d, v), LAMBDA s : KeepStatus(s, v))

\* a || b for numbers
NumberOrElse(a, b) == IF a = 0 THEN b ELSE a

DefaultStart(years, v, today) ==
    IF v = "part_001" THEN Date20260101
    ELSE IF v = "part_003" THEN (IF years = <<>> THEN 2020 ELSE NumberOrElse(years[1], 2020))
    ELSE 2022

DefaultEnd(years, v, today) ==
    IF v = "part_001" THEN today
    ELSE IF v = "part_003" THEN (IF years = <<>> THEN 2026 ELSE NumberOrElse(years[Len(years)], 2026))
    ELSE 2026

\* useState's initializer of filters; today is new Date().toISOString()'s date
\* part.  start and end are startYear and endYear, or startDate and endDate
\* in part_001.
DefaultFilters(d, v, zone, today) ==
    [subsystems |-> <<Chassis, Packaging>>,
     platforms  |-> IF v \in PresetVariants THEN <<Fsr, Bi, Ct, Mwo, Wo>> ELSE <<Fsr, Wo, Ct, Mwo>>,
     statuses   |-> DefaultStatuses(d, v),
     start      |-> DefaultStart(AvailableYears(d, zone), v, today),
     end        |-> DefaultEnd(AvailableYears(d, zone), v, today)]

\* The useEffect of part_001 and part_003, run after the mount: it sets the
\* statuses again when none is selected.
AfterMountEffect(d, f, v) ==
    IF v \in {"part_001", "part_003"} /\ Len(d) > 0 /\ Len(f.statuses) = 0
    THEN [f EXCEPT !.statuses = DefaultStatuses(d, v)]
    ELSE f

\* item.date >= start && item.date <= end, end moved to the end of its day; a
\* comparison with an invalid Date is false.
MatchDateRange(item, start, end, zone) ==
    /\ start.valid /\ end.valid
    /\ MinutesOf(item.date) >= MinutesOf(start)
    /\ MinutesOf(item.date) <= SetHoursEndOfDay(MinutesOf(end), zone)

MatchDate(item, f, v, zone, eng) ==
    IF v = "part_001"
    THEN MatchDateRange(item, DateParse(f.start, eng), DateParse(f.end, eng), zone)
    ELSE GetFullYear(item.date, zone) >= f.start /\ GetFullYear(item.date, zone) <= f.end

\* A filter that lets no value through when nothing is selected.
MatchSetStrict(allowed, value) == Includes(allowed, value)

\* filters.x.length === 0 || filters.x.includes(value)
MatchSet(allowed, value) == Len(allowed) = 0 \/ Includes(allowed, value)

\* The predicate of filteredData's filter.
Matches(item, f, v, zone, eng) ==
    /\ MatchDate(item, f, v, zone, eng)
    /\ MatchSet(f.subsystems, item.subsystem)
    /\ MatchSet(f.platforms, item.platform)
    /\ MatchSet(f.statuses, item.status)

FilteredData(d, f, v, zone, eng) == SelectSeq(d, LAMBDA item : Matches(item, f, v, zone, eng))

\* The fields the search term is looked for in.
SearchFields(v) ==
    IF v \in PresetVariants THEN {"id", "title", "submitter", "subsystem", "platform"}
    ELSE {"id", "title", "submitter"}

\* The predicate of the search filter; term is searchTerm.toLowerCase().
MatchesTerm(item, term, v) ==
    \E f \in SearchFields(v) : StringIncludes(ToLowerCase(item[f]), term)

\* A search that compares the term as typed.
SearchedAsTyped(filtered, searchTerm, v) ==
    IF Trim(searchTerm) = <<>> THEN filtered
    ELSE SelectSeq(filtered, LAMBDA item : MatchesTerm(item, searchTerm, v))

\* if (searchTerm.trim()) result = result.filter(...)
Searched(filtered, searchTerm, v) ==
    IF Trim(searchTerm) = <<>> THEN filtered
    ELSE SelectSeq(filtered, LAMBDA item : MatchesTerm(item, ToLowerCase(searchTerm), v))

SavingsEntries(list) == [i \in DOMAIN list |-> [key |-> list[i].savings, item |-> list[i]]]

\* if (sortConfig.key === 'savings') result = [...result].sort(...)
Sorted(list, sortConfig) ==
    IF sortConfig.key = "savings"
    THEN Items(StableSort(SavingsEntries(list), sortConfig.direction = "desc"))
    ELSE list

\* searchedAndSortedData
SearchedAndSortedData(filtered, searchTerm, sortConfig, v) ==
    Sorted(Searched(filtered, searchTerm, v), sortConfig)

\* A total that is the savings of the first record only.
TotalOfFirst(filtered) == IF filtered = <<>> THEN NumOf(0) ELSE filtered[1].savings

\* filteredData.reduce((a, b) => a + b.savings, 0)
RECURSIVE TotalSavings(_)
TotalSavings(filtered) ==
    IF filtered = <<>> THEN NumOf(0)
    ELSE NumAdd(TotalSavings(SubSeq(filtered, 1, Len(filtered) - 1)), filtered[Len(filtered)].savings)

RECURSIVE Gcd(_, _)
Gcd(i, j) == IF j = 0 THEN i ELSE Gcd(j, i % j)

\* total / n for n > 0: the number itself when the division is exact, and
\* otherwise the fraction p / q in lowest terms.
Quotient(p, q, neg) ==
    IF (q \div Gcd(p, q)) = 1 THEN Number(neg, p \div Gcd(p, q), 0)
    ELSE [k |-> "quot", neg |-> neg, p |-> p \div Gcd(p, q), q |-> q \div Gcd(p, q)]

NumDiv(total, n) ==
    IF total.k # "num" THEN total
    ELSE IF total.exp >= 0 THEN Quotient(total.mant * Pow10(total.exp), n, total.neg)
    ELSE Quotient(total.mant, n * Pow10(-total.exp), total.neg)

\* filteredData.length ? totalSavings / filteredData.length : 0
AvgSavings(filtered) ==
    IF Len(filtered) # 0 THEN NumDiv(TotalSavings(filtered), Len(filtered)) ELSE NumOf(0)

\* new Set(filteredData.map(i => i.submitter)).size
SubmitterCount(filtered) == Cardinality({filtered[i].submitter : i \in DOMAIN filtered})

\* How many chart entries the subsystem grouping keeps.
TopN(v) == IF v \in {"dashboard", "part_001"} THEN 10 ELSE 8

\* The sum of the savings of the items of a subsystem.
SavingsOfSubsystem(filtered, name) ==
    TotalSavings(SelectSeq(filtered, LAMBDA item : item.subsystem = name))

SubsystemEntries(filtered, keys) ==
    [k \in DOMAIN keys |->
        [key  |-> SavingsOfSubsystem(filtered, keys[k]),
         item |-> [name  |-> keys[k],
                   count |-> CountOf(Column(filtered, "subsystem"), keys[k]),
                   value |-> SavingsOfSubsystem(filtered, keys[k])]]]

\* A subsystem grouping that is cut without being sorted.
ChartUnsorted(filtered, v) ==
    SubSeq(Items(SubsystemEntries(filtered, EntryKeys(Column(filtered, "subsystem")))),
           1, Min(TopN(v), Len(EntryKeys(Column(filtered, "subsystem")))))

\* chartSubsystemData / prepareSubsystemData: the sums per subsystem, the
\* larger first, cut to the first TopN.  (The count of an entry is kept by
\* dashboard and part_002 only; no version reads it.)
ChartSubsystemData(filtered, v) ==
    SubSeq(Items(StableSort(SubsystemEntries(filtered, EntryKeys(Column(filtered, "subsystem"))), TRUE)),
           1, Min(TopN(v), Len(EntryKeys(Column(filtered, "subsystem")))))

StatusEntries(filtered, keys) ==
    [k \in DOMAIN keys |->
        [key  |-> NumOf(CountOf(Column(filtered, "status"), keys[k])),
         item |-> [name |-> keys[k], value |-> CountOf(Column(filtered, "status"), keys[k])]]]

\* chartStatusData / prepareStatusData: the counts per status, sorted by
\* dashboard and part_002 only.
ChartStatusData(filtered, v) ==
    IF v \in PresetVariants
    THEN Items(StableSort(StatusEntries(filtered, EntryKeys(Column(filtered, "status"))), TRUE))
    ELSE Items(StatusEntries(filtered, EntryKeys(Column(filtered, "status"))))

-----------------------------------------------------------------------------
(* The spreadsheets loaded into the Dashboard                              *)

\* Bounds of the sessions explored.
MaxClicks == 2
MaxLoads == 2
MaxOptions == 2

DashHeader ==
    <<IDEA_BANK_ID, PROJECT_TITLE, SUBSYSTEM, PLATFORM, FINAL_STATUS, SUBMIT_DATE,
      REQUESTER_EMAIL, TOTAL_SAVINGS>>

Date20211231 == <<"2", "0", "2", "1", "-", "1", "2", "-", "3", "1">>
Date20220101 == <<"2", "0", "2", "2", "-", "0", "1", "-", "0", "1">>
Date20261231 == <<"2", "0", "2", "6", "-", "1", "2", "-", "3", "1">>
Date20270101 == <<"2", "0", "2", "7", "-", "0", "1", "-", "0", "1">>

Ann == <<"a", "n", "n", "@", "x", ".", "c", "o">>
Bob == <<"B", "o", "b", "@", "x", ".", "c", "o">>
Approved == <<"a", "p", "p", "r", "o", "v", "e", "d">>
RejectedCell == <<"R", "E", "J", "E", "C", "T", "E", "D">>
InReview == <<"i", "n", " ", "r", "e", "v", "i", "e", "w">>

\* Mixed subsystems, platforms and statuses, equal savings, dates at the ends
\* of years, a blank status and submitter, and a row without id.
MixedSheet ==
    Sheet(DashHeader, FALSE,
          << <<<<"I", "B", "-", "1">>, <<"A", "l", "p", "h", "a">>, <<"c", "h", "a", "s", "s", "i", "s">>, <<"f", "s", "r">>,
               InReview, Date20220101, Ann, <<"1", "0", "0">>>>,
             <<<<"I", "B", "-", "2">>, <<"B", "e", "t", "a">>, <<"p", "a", "c", "k", "a", "g", "i", "n", "g">>, <<"F", "S", "R">>,
               RejectedCell, Date20240301, Bob, <<"3", "0", "0">>>>,
             <<<<>>, <<"N", "o", " ", "i", "d">>, <<"c", "h", "a", "s", "s", "i", "s">>, <<"f", "s", "r">>,
               Approved, Date20240301, Ann, <<"9", "0", "0">>>>,
             <<<<"I", "B", "-", "3">>, <<"G", "a", "m", "m", "a">>, <<"c", "h", "a", "s", "s", "i", "s">>, <<"w", "o">>,
               <<>>, Date20211231, Ann, <<"1", "0", "0">>>>,
             <<<<"I", "B", "-", "4">>, <<"D", "e", "l", "t", "a">>, <<"1", "2">>, <<"c", "t">>,
               Approved, Date20261231, <<>>, <<"$", "3", "0", "0">>>>,
             <<<<"I", "B", "-", "5">>, <<>>, <<"7">>, <<"f", "s", "r">>,
               Approved, Date20270101, Bob, <<"2", "5", "0", ".", "5">>>> >>, "lf")

\* Savings 100, 200 and 300.
HundredsSheet ==
    Sheet(DashHeader, FALSE,
          << <<<<"H", "-", "1">>, <<"O", "n", "e">>, <<"c", "h", "a", "s", "s", "i", "s">>, <<"f", "s", "r">>,
               Approved, Date20240301, Ann, <<"1", "0", "0">>>>,
             <<<<"H", "-", "2">>, <<"T", "w", "o">>, <<"c", "h", "a", "s", "s", "i", "s">>, <<"f", "s", "r">>,
               Approved, Date20240301, Bob, <<"2", "0", "0">>>>,
             <<<<"H", "-", "3">>, <<"T", "h", "r", "e", "e">>, <<"p", "a", "c", "k", "a", "g", "i", "n", "g">>, <<"f", "s", "r">>,
               Approved, Date20240301, Ann, <<"3", "0", "0">>>> >>, "crlf")

\* Every status is a rejected one.
RejectedSheet ==
    Sheet(DashHeader, FALSE,
          << <<<<"R", "-", "1">>, <<"O", "n", "e">>, <<"c", "h", "a", "s", "s", "i", "s">>, <<"f", "s", "r">>,
               RejectedCell, Date20260101, Ann, <<"5", "0">>>>,
             <<<<"R", "-", "2">>, <<"T", "w", "o">>, <<"c", "h", "a", "s", "s", "i", "s">>, <<"w", "o">>,
               RejectedCell, Date20260101, Ann, <<"7", "0">>>> >>, "lf")

\* Eleven subsystems, one row each, with savings 75, 45, 15, ... in an order
\* that is not sorted, the first and the last equal.
SubsystemLetters == <<"A", "B", "C", "D", "E", "F", "G", "H", "I", "J", "K">>
ManySubsystemsSheet ==
    Sheet(DashHeader, FALSE,
          [r \in 1..Len(SubsystemLetters) |->
              <<<<"S", "-", SubsystemLetters[r]>>, <<"T">>, <<SubsystemLetters[r]>>, <<"f", "s", "r">>,
                Approved, Date20240301, Ann, <<Digits[((r * 7) % 10) + 1], "5">>>>], "lf")

\* No row is valid.
NoValidRowSheet ==
    Sheet(DashHeader, FALSE,
          << <<<<>>, <<"O", "n", "e">>, <<"c", "h", "a", "s", "s", "i", "s">>, <<"f", "s", "r">>,
               Approved, Date20240301, Ann, <<"1", "0", "0">>>>,
             <<<<"N", "-", "2">>, <<"T", "w", "o">>, <<"c", "h", "a", "s", "s", "i", "s">>, <<"f", "s", "r">>,
               Approved, NotADate, Ann, <<"1", "0", "0">>>>,
             <<<<"N", "-", "3">>, <<"T", "w", "o">>, <<"c", "h", "a", "s", "s", "i", "s">>, <<"f", "s", "r">>,
               Approved, Date20240301, Ann, <<"$", "0">>>> >>, "lf")

\* The spreadsheets a fetch returns.
AppDocs == {MixedSheet, HundredsSheet, RejectedSheet, ManySubsystemsSheet, NoValidRowSheet, RawDoc(<<>>)}

TimeZones == {-300, 0, 330}

\* new Date().toISOString().split('T')[0] at the time of the mount.
Todays == {Date20261231}

-----------------------------------------------------------------------------
(* App and Dashboard: the events                                           *)

Message(text) == [message |-> text]

NoValidData == "No valid data found in spreadsheet."
CouldNotAccess == "Could not access spreadsheet. Ensure it is public."
UnexpectedError ==
    IF app = "app1" THEN "An unexpected error occurred during import."
    ELSE "An unexpected error occurred"

\* What the awaited fetch and response.text() of handleUrlSubmit come to.
FetchOutcomes ==
    {[kind |-> "rejected", message |-> "Failed to fetch", text |-> <<>>],
     [kind |-> "rejected", message |-> "", text |-> <<>>],
     [kind |-> "notOk", message |-> "", text |-> <<>>]}
        \cup {[kind |-> "ok", message |-> "", text |-> Export(d)] : d \in AppDocs}

\* A catch that stores the message as it is.
ErrorAsThrown(message) == Message(message)

\* err.message || 'An unexpected error occurred during import.'
ErrorOf(message) == Message(IF message = "" THEN UnexpectedError ELSE message)

\* The state of a Dashboard that has just mounted.
InitialSortConfig(v) ==
    [key |-> IF v = "part_002" THEN "null" ELSE "savings", direction |-> "desc"]

Mounted(d, v, zone, today) ==
    [mounted    |-> TRUE,
     filters    |-> AfterMountEffect(d, DefaultFilters(d, v, zone, today), v),
     searchTerm |-> <<>>,
     sortConfig |-> InitialSortConfig(v)]

\* The views of the mounted Dashboard.
Filtered == FilteredData(data, dash.filters, variant, tz, engine)
Displayed == SearchedAndSortedData(Filtered, dash.searchTerm, dash.sortConfig, variant)

AppInit ==
    /\ doc = RawDoc(<<>>) /\ csvText = <<>> /\ engine = "v8" /\ pc = "idle"
    /\ outcome = Returned(<<>>) /\ line = <<>> /\ values = <<>>
    /\ val = Undefined /\ normalized = <<>>
    /\ app \in AppVersions
    /\ variant \in Variants
    /\ tz \in TimeZones
    /\ data = <<>> /\ loading = FALSE /\ error = Null
    /\ dash = Unmounted /\ clicks = 0 /\ loads = 0

\* A form that can be submitted whatever App shows.
UrlInputAlways(d, busy) == TRUE

\* {!data.length && !loading && ( ... <UrlInput onSubmit={handleUrlSubmit} /> ... )}
UrlInputRendered(d, busy) == Len(d) = 0 /\ ~busy

\* handleUrlSubmit up to its first await; UrlInput is rendered only while
\* there is no data and nothing is loading.
SubmitStart ==
    /\ UrlInputRendered(data, loading)
    /\ loads < MaxLoads
    /\ loading' = TRUE
    /\ error' = Null
    /\ loads' = loads + 1
    /\ UNCHANGED <<data, variant, tz, dash, clicks>>
    /\ UNCHANGED callVars

\* The result of handleUrlSubmit's try block: the records to store, or the
\* error caught.
Loaded(list) == [ok |-> TRUE, list |-> list, error |-> Null]
Failed(err) == [ok |-> FALSE, list |-> <<>>, error |-> err]

\* A try block that stores whatever processData returned for a response.
TryLoadUnchecked(fetched, processed) ==
    IF fetched.kind = "rejected" THEN Failed(ErrorOf(fetched.message))
    ELSE Loaded(processed.list)

TryLoad(fetched, processed) ==
    IF fetched.kind = "rejected" THEN Failed(ErrorOf(fetched.message))
    ELSE IF fetched.kind = "notOk" THEN Failed(ErrorOf(CouldNotAccess))
    ELSE IF processed.threw THEN Failed(ErrorOf("TypeError"))
    ELSE IF Len(processed.list) = 0 THEN Failed(ErrorOf(NoValidData))
    ELSE Loaded(processed.list)

\* handleUrlSubmit from the fetch on, and the render that follows: a
\* Dashboard mounts when there are records.
SubmitFinishWith(result, today) ==
    /\ data' = (IF result.ok THEN result.list ELSE data)
    /\ error' = (IF result.ok THEN error ELSE result.error)
    /\ loading' = FALSE
    /\ dash' = (IF Len(data') > 0 THEN Mounted(data', variant, tz, today) ELSE Unmounted)
    /\ clicks' = 0

SubmitFinish ==
    /\ loading
    /\ \E fetched \in FetchOutcomes, today \in Todays :
          SubmitFinishWith(TryLoad(fetched, ProcessData(fetched.text, app, engine)), today)
    /\ UNCHANGED <<variant, tz, loads>>
    /\ UNCHANGED callVars

FilterKeys == {"subsystems", "platforms", "statuses"}

\* The Idea field a filter key selects on.
FieldOf(key) ==
    IF key = "subsystems" THEN "subsystem" ELSE IF key = "platforms" THEN "platform" ELSE "status"

\* Options counted over the filtered view.
OptionsOfView(d, key) == GetUniqueOptions(Filtered, FieldOf(key))

\* options[key]
Options(d, key) == GetUniqueOptions(d, FieldOf(key))

\* A render whose sort and filters work on the array of the prop itself.
DataSortedInPlace(d, shown) == shown

\* The data prop after an event and the render that follows it: the filter
\* builds a new array and the sort is applied to a copy ([...result]), so the
\* array of the prop is as it was.
DataAfterRender(d, shown) == d

\* What the table shows for a Dashboard state.
ViewOf(d, ds) ==
    SearchedAndSortedData(FilteredData(d, ds.filters, variant, tz, engine),
                          ds.searchTerm, ds.sortConfig, variant)

\* An effect without its list of dependencies: it runs after every render.
EffectEveryRender(d, ds, v) == [ds EXCEPT !.filters = AfterMountEffect(d, @, v)]

\* The useEffect of part_001 and part_003 after a render that follows an
\* event: its dependencies (options.statuses, memoized on data, and
\* data.length) are what they were, so it does not run.
AfterRenderEffect(d, ds, v) == ds

\* An event handled by the mounted Dashboard, with the state it sets.
DashEvent(nextDash) ==
    /\ dash.mounted
    /\ clicks < MaxClicks
    /\ dash' = AfterRenderEffect(data, nextDash, variant)
    /\ clicks' = clicks + 1
    /\ data' = DataAfterRender(data, ViewOf(data, nextDash))
    /\ UNCHANGED <<loading, error, variant, tz, loads>>
    /\ UNCHANGED callVars

\* The check boxes clicked: the first MaxOptions of each group.
Offered(key) ==
    {OptionNames(Options(data, key))[i] : i \in 1..Min(MaxOptions, Len(Options(data, key)))}

\* A toggle that appends the value whether it is there or not.
ToggleAppending(current, value) == Append(current, value)

\* current.includes(value) ? current.filter(v => v !== value) : [...current, value]
Toggle(current, value) ==
    IF Includes(current, value) THEN SelectSeq(current, LAMBDA x : x # value)
    ELSE Append(current, value)

ToggleFilter ==
    \E key \in FilterKeys : \E value \in Offered(key) :
        DashEvent([dash EXCEPT !.filters[key] = Toggle(@, value)])

\* The groups that have a select-all button, and those with a deselect-all.
SelectAllKeys(v) ==
    IF v = "dashboard" THEN {"platforms", "statuses"}
    ELSE IF v = "part_002" THEN {"statuses"}
    ELSE FilterKeys

DeselectAllKeys(v) == IF v \in PresetVariants THEN {} ELSE FilterKeys

SelectAll ==
    \E key \in SelectAllKeys(variant) :
        DashEvent([dash EXCEPT !.filters[key] = OptionNames(Options(data, key))])

DeselectAll ==
    \E key \in DeselectAllKeys(variant) :
        DashEvent([dash EXCEPT !.filters[key] = <<>>])

\* setFilters({ ...filters, subsystems: [], platforms: [], statuses: [] })
ClearAll ==
    DashEvent([dash EXCEPT !.filters.subsystems = <<>>, !.filters.platforms = <<>>,
                           !.filters.statuses = <<>>])

ApplyPreset ==
    /\ variant \in PresetVariants
    /\ \E subsystem \in {Chassis, Packaging} :
          DashEvent([dash EXCEPT !.filters.subsystems = <<subsystem>>])

\* The years the two selects offer.
YearsOffered(v, d, zone) ==
    IF v = "dashboard" THEN 2022..2026
    ELSE IF v = "part_002" THEN 2020..2030
    ELSE Range(AvailableYears(d, zone))

\* The years and dates picked.
YearsTried == {2021, 2022, 2026, 2027}
DatesTried == {<<>>, Date20240301, Date20261231}

RangeChoices ==
    IF variant = "part_001" THEN DatesTried
    ELSE YearsTried \cap YearsOffered(variant, data, tz)

SetStart == \E choice \in RangeChoices : DashEvent([dash EXCEPT !.filters.start = choice])

SetEnd == \E choice \in RangeChoices : DashEvent([dash EXCEPT !.filters.end = choice])

\* The search terms typed.
SearchTerms ==
    {<<>>, <<" ">>, <<"i", "b", "-">>, <<"A", "N", "N">>, <<"F", "s", "r">>, <<"z", "z", "z">>}

SetSearchTerm == \E term \in SearchTerms : DashEvent([dash EXCEPT !.searchTerm = term])

\* The click on the savings column: the direction flips and the key is savings.
HandleSort ==
    DashEvent([dash EXCEPT !.sortConfig =
                  [key |-> "savings", direction |-> IF @.direction = "asc" THEN "desc" ELSE "asc"]])

\* The Reset button of part_002, rendered when the table is empty.
ResetSearch ==
    /\ variant = "part_002"
    /\ dash.mounted
    /\ Len(Displayed) = 0
    /\ DashEvent([dash EXCEPT !.searchTerm = <<>>,
                              !.sortConfig = [key |-> "null", direction |-> "desc"]])

\* A Dashboard that is kept, hidden, with the state it had.
Hidden(ds) == [ds EXCEPT !.mounted = FALSE]

\* data.length > 0 && !loading && <Dashboard ... />: with no records the
\* Dashboard is taken out of the tree and its state is gone.
Unmount(ds) == Unmounted

\* Disconnect: onReset={() => setData([])}, and the render that unmounts
\* the Dashboard.
OnReset ==
    /\ dash.mounted
    /\ data' = <<>>
    /\ dash' = Unmount(dash)
    /\ clicks' = 0
    /\ UNCHANGED <<loading, error, variant, tz, loads>>
    /\ UNCHANGED callVars

AppNext ==
    \/ SubmitStart
    \/ SubmitFinish
    \/ ToggleFilter
    \/ SelectAll
    \/ DeselectAll
    \/ ClearAll
    \/ ApplyPreset
    \/ SetStart
    \/ SetEnd
    \/ SetSearchTerm
    \/ HandleSort
    \/ ResetSearch
    \/ OnReset

AppSpec == AppInit /\ [][AppNext]_vars

-----------------------------------------------------------------------------
(* Properties of the Dashboard's views                                     *)

\* The first minute of a year in a time zone, as minutes since the epoch.
YearStart(y, zone) == DaysFromCivil(y, 1, 1) * MinutesPerDay - zone

\* The record's date lies in the range selected: from the start of the start
\* year to the end of the end year in the browser's time zone, or from the
\* start date to the end of the end date.
InSelectedRange(item, f) ==
    IF variant = "part_001"
    THEN /\ DateParse(f.start, engine).valid /\ DateParse(f.end, engine).valid
         /\ item.date.t >= DateParse(f.start, engine).t
         /\ item.date.t <= DateParse(f.end, engine).t
    ELSE /\ f.start <= f.end
         /\ item.date.t * MinutesPerDay >= YearStart(f.start, tz)
         /\ item.date.t * MinutesPerDay < YearStart(f.end + 1, tz)

Selected(allowed, value) == allowed = <<>> \/ value \in Range(allowed)

InView(item, f) ==
    /\ InSelectedRange(item, f)
    /\ Selected(f.subsystems, item.subsystem)
    /\ Selected(f.platforms, item.platform)
    /\ Selected(f.statuses, item.status)

\* The filters with every empty set replaced by all the values of its field
\* in the data.
Widened(f) ==
    [f EXCEPT !.subsystems = IF @ = <<>> THEN OptionNames(Options(data, "subsystems")) ELSE @,
              !.platforms  = IF @ = <<>> THEN OptionNames(Options(data, "platforms")) ELSE @,
              !.statuses   = IF @ = <<>> THEN OptionNames(Options(data, "statuses")) ELSE @]

\* C11: in every state of a mounted Dashboard the filtered view holds, in the
\* order of the data, exactly the records whose date is in the selected range
\* and whose subsystem, platform and status are each selected or have nothing
\* selected; and it is the view of the filters in which every empty set is
\* replaced by all the values of its field.
C11_FilteredView ==
    dash.mounted =>
        /\ Filtered = SelectSeq(data, LAMBDA item : InView(item, dash.filters))
        /\ Filtered = FilteredData(data, Widened(dash.filters), variant, tz, engine)

\* A view that one set narrows and the date range narrows, with another set empty.
C11_Witness ==
    /\ dash.mounted
    /\ dash.filters.subsystems = <<>>
    /\ dash.filters.statuses # <<>>
    /\ Len(Filtered) > 0
    /\ \E i \in DOMAIN data : ~InSelectedRange(data[i], dash.filters)
    /\ \E i \in DOMAIN data :
          InSelectedRange(data[i], dash.filters) /\ ~Selected(dash.filters.statuses, data[i].status)

\* A finite number >= 0 with at most two decimals, in hundredths.
Hundredths(n) == n.mant * Pow10(n.exp + 2)

\* The savings of the records of the data that are in view, in hundredths,
\* added up.
RECURSIVE SumInView(_)
SumInView(indices) ==
    IF indices = {} THEN 0
    ELSE LET i == CHOOSE j \in indices : TRUE
         IN  Hundredths(data[i].savings) + SumInView(indices \ {i})

IndicesInView == {i \in DOMAIN data : InView(data[i], dash.filters)}

\* mean * n = total, for the mean as a number or as a fraction p / q.
IsQuotient(mean, total, n) ==
    IF mean.k = "quot" THEN mean.p * n * 100 = mean.q * Hundredths(total)
    ELSE mean.k = "num" /\ Hundredths(mean) * n = Hundredths(total)

\* C12: in every state of a mounted Dashboard, whatever the search term and
\* the sort, the total savings are the sum of the savings of the records in
\* the filtered view and the mean savings are that total divided by their
\* number, and the number 0 when the view is empty; savings 100, 200, 300 give
\* the total 600 and the mean 200.
C12_TotalAndMean ==
    dash.mounted =>
        /\ TotalSavings(Filtered).k = "num" /\ ~TotalSavings(Filtered).neg
        /\ Hundredths(TotalSavings(Filtered)) = SumInView(IndicesInView)
        /\ IndicesInView = {} => AvgSavings(Filtered) = [k |-> "num", neg |-> FALSE, mant |-> 0, exp |-> 0]
        /\ IndicesInView # {} =>
              IsQuotient(AvgSavings(Filtered), TotalSavings(Filtered), Cardinality(IndicesInView))
        /\ [i \in DOMAIN Filtered |-> Hundredths(Filtered[i].savings)] = <<10000, 20000, 30000>> =>
              /\ TotalSavings(Filtered) = [k |-> "num", neg |-> FALSE, mant |-> 6, exp |-> 2]
              /\ AvgSavings(Filtered) = [k |-> "num", neg |-> FALSE, mant |-> 2, exp |-> 2]

\* Savings 100, 200, 300 in view while the search term hides one of them and
\* the sort is ascending.
C12_Witness ==
    /\ dash.mounted
    /\ [i \in DOMAIN Filtered |-> Hundredths(Filtered[i].savings)] = <<10000, 20000, 30000>>
    /\ Len(Displayed) = 2
    /\ dash.sortConfig = [key |-> "savings", direction |-> "asc"]

\* The records in view that have a value in a field.
InViewWith(field, value) == {i \in IndicesInView : data[i][field] = value}

\* The values a field takes in view.
ValuesInView(field) == {data[i][field] : i \in IndicesInView}

\* The names of a grouping are all different.
DistinctNames(chart) == \A i, j \in DOMAIN chart : chart[i].name = chart[j].name => i = j

RECURSIVE SumOfValues(_)
SumOfValues(chart) ==
    IF chart = <<>> THEN 0 ELSE chart[1].value + SumOfValues(Tail(chart))

\* The status grouping has one entry for every status in view, with the
\* number of records in view of that status; the numbers add up to the view.
StatusGroupingRight(chart) ==
    /\ DistinctNames(chart)
    /\ {chart[i].name : i \in DOMAIN chart} = ValuesInView("status")
    /\ \A i \in DOMAIN chart : chart[i].value = Cardinality(InViewWith("status", chart[i].name))
    /\ SumOfValues(chart) = Cardinality(IndicesInView)

\* The subsystem grouping has min(N, subsystems in view) entries of different
\* subsystems in view, each with the sum of its savings in view, the larger
\* sums first, and no subsystem left out has a larger sum than one shown.
SubsystemGroupingRight(chart, n) ==
    /\ DistinctNames(chart)
    /\ Len(chart) = Min(n, Cardinality(ValuesInView("subsystem")))
    /\ \A i \in DOMAIN chart :
          /\ chart[i].name \in ValuesInView("subsystem")
          /\ chart[i].value.k = "num"
          /\ Hundredths(chart[i].value) = SumInView(InViewWith("subsystem", chart[i].name))
    /\ \A i, j \in DOMAIN chart :
          i < j => Hundredths(chart[i].value) >= Hundredths(chart[j].value)
    /\ \A name \in ValuesInView("subsystem") \ {chart[i].name : i \in DOMAIN chart} :
          \A i \in DOMAIN chart :
              SumInView(InViewWith("subsystem", name)) <= Hundredths(chart[i].value)

\* C13: in every state of a mounted Dashboard the submitter count is the
\* number of different submitters in the filtered view, the status grouping
\* counts the records of every status in view, and the subsystem grouping
\* holds the savings sums of the subsystems in view, the larger first, cut
\* to the first 10 or 8; an empty view gives 0 and empty groupings.
C13_Groupings ==
    dash.mounted =>
        /\ SubmitterCount(Filtered) = Cardinality(ValuesInView("submitter"))
        /\ StatusGroupingRight(ChartStatusData(Filtered, variant))
        /\ SubsystemGroupingRight(ChartSubsystemData(Filtered, variant),
                                  IF variant \in {"part_002", "part_003"} THEN 8 ELSE 10)
        /\ IndicesInView = {} =>
              /\ SubmitterCount(Filtered) = 0
              /\ ChartStatusData(Filtered, variant) = <<>>
              /\ ChartSubsystemData(Filtered, variant) = <<>>

\* More subsystems in view than the grouping shows, two of them with equal sums.
C13_Witness ==
    /\ dash.mounted
    /\ Cardinality(ValuesInView("subsystem")) > Len(ChartSubsystemData(Filtered, variant))
    /\ Len(ChartSubsystemData(Filtered, variant)) \in {8, 10}
    /\ ChartSubsystemData(Filtered, variant)[3].value = ChartSubsystemData(Filtered, variant)[4].value

\* How often a value occurs in a field of the whole data.
Occurrences(field, value) == Cardinality({i \in DOMAIN data : data[i][field] = value})

RECURSIVE SumOfCounts(_)
SumOfCounts(opts) == IF opts = <<>> THEN 0 ELSE opts[1][2] + SumOfCounts(Tail(opts))

\* The options of a group: every value of the field in the whole data once,
\* with its number of occurrences there, the larger numbers first, the
\* numbers adding up to the size of the data.
OptionsRight(opts, field) ==
    /\ \A i, j \in DOMAIN opts : opts[i][1] = opts[j][1] => i = j
    /\ {opts[i][1] : i \in DOMAIN opts} = {data[i][field] : i \in DOMAIN data}
    /\ \A i \in DOMAIN opts : opts[i][2] = Occurrences(field, opts[i][1])
    /\ \A i, j \in DOMAIN opts : i < j => opts[i][2] >= opts[j][2]
    /\ SumOfCounts(opts) = Len(data)

\* C14: in every state of a mounted Dashboard, whatever the filters, the
\* search term and the sort, the options of subsystem, platform and status
\* list every value of the field in the whole loaded data once with its
\* number of occurrences there, the larger numbers first, and the numbers add
\* up to the size of the data.
C14_OptionsFromFullData ==
    dash.mounted =>
        \A key \in FilterKeys : OptionsRight(Options(data, key), FieldOf(key))

\* A filtered view that lacks a value the options list, the options having
\* different counts, while a search term is set.
C14_Witness ==
    /\ dash.mounted
    /\ Len(Filtered) > 0
    /\ \E i \in DOMAIN Options(data, "statuses") :
          /\ Options(data, "statuses")[i][2] < Options(data, "statuses")[1][2]
          /\ ~\E j \in DOMAIN Filtered : Filtered[j].status = Options(data, "statuses")[i][1]
    /\ dash.searchTerm # <<>>

\* term occurs in s at some position.
OccursIn(term, s) ==
    \E k \in 0..Len(s) :
        /\ k + Len(term) <= Len(s)
        /\ \A j \in 1..Len(term) : s[k + j] = term[j]

\* No character of the term is other than white space.
BlankTerm(term) == \A i \in DOMAIN term : term[i] \in WhiteSpace

\* The record is one the search keeps.
Found(item, term) ==
    \/ BlankTerm(term)
    \/ \E field \in {"id", "title", "submitter"} :
          OccursIn(ToLowerCase(term), ToLowerCase(item[field]))
    \/ /\ variant \in {"dashboard", "part_002"}
       /\ \E field \in {"subsystem", "platform"} :
             OccursIn(ToLowerCase(term), ToLowerCase(item[field]))

\* Two lists hold the same records the same number of times.
SameRecords(l1, l2) ==
    \A x \in Range(l1) \cup Range(l2) :
        Cardinality({i \in DOMAIN l1 : l1[i] = x}) = Cardinality({i \in DOMAIN l2 : l2[i] = x})

\* C15: in every state of a mounted Dashboard the searched list is the filtered
\* view cut down, in its order, to the records that have the lowercased search
\* term in their lowercased id, title or submitter (or subsystem or platform
\* in Dashboard.tsx and part_002); a term that is empty or white space only
\* leaves the filtered view as it is; the table shows the searched records.
C15_SearchNarrows ==
    dash.mounted =>
        /\ Searched(Filtered, dash.searchTerm, variant)
              = SelectSeq(Filtered, LAMBDA item : Found(item, dash.searchTerm))
        /\ BlankTerm(dash.searchTerm) => Searched(Filtered, dash.searchTerm, variant) = Filtered
        /\ SameRecords(Displayed, SelectSeq(Filtered, LAMBDA item : Found(item, dash.searchTerm)))

\* A term typed in upper case that keeps some records of the view and drops
\* others.
C15_Witness ==
    /\ dash.mounted
    /\ ToLowerCase(dash.searchTerm) # dash.searchTerm
    /\ Len(Searched(Filtered, dash.searchTerm, variant)) > 0
    /\ Len(Searched(Filtered, dash.searchTerm, variant)) < Len(Filtered)

\* Where a record stands in the filtered view (its records are all different).
PlaceInFiltered(item) == CHOOSE k \in DOMAIN Filtered : Filtered[k] = item

\* The list is in savings order, ascending or descending, records of equal
\* savings standing as in the filtered view.
InSavingsOrder(list, direction) ==
    \A i, j \in DOMAIN list :
        i < j =>
            /\ direction = "asc" => Hundredths(list[i].savings) <= Hundredths(list[j].savings)
            /\ direction = "desc" => Hundredths(list[i].savings) >= Hundredths(list[j].savings)
            /\ list[i].savings = list[j].savings => PlaceInFiltered(list[i]) < PlaceInFiltered(list[j])

\* C16: in every state of a mounted Dashboard with the sort key savings the
\* table is a permutation of the searched list in non-decreasing savings order
\* for asc and non-increasing order for desc, records of equal savings in
\* their order of the filtered view; with the sort key null the table is the
\* searched list as it is.
C16_SortBySavings ==
    dash.mounted =>
        /\ dash.sortConfig.key \in {"savings", "null"}
        /\ dash.sortConfig.direction \in {"asc", "desc"}
        /\ dash.sortConfig.key = "savings" =>
              /\ SameRecords(Displayed, Searched(Filtered, dash.searchTerm, variant))
              /\ Len(Displayed) = Len(Searched(Filtered, dash.searchTerm, variant))
              /\ InSavingsOrder(Displayed, dash.sortConfig.direction)
        /\ dash.sortConfig.key = "null" =>
              Displayed = Searched(Filtered, dash.searchTerm, variant)

\* An ascending table that is not in the order of the filtered view and has
\* two records of equal savings.
C16_Witness ==
    /\ dash.mounted
    /\ dash.sortConfig = [key |-> "savings", direction |-> "asc"]
    /\ Displayed # Searched(Filtered, dash.searchTerm, variant)
    /\ \E i, j \in DOMAIN Displayed : i < j /\ Displayed[i].savings = Displayed[j].savings

\* A step of handleUrlSubmit that ends with records stored, and a step of
\* Disconnect.
SuccessfulLoadStep == loading /\ ~loading' /\ Len(data') > 0 /\ error' = Null /\ dash'.mounted
DisconnectStep == dash.mounted /\ ~dash'.mounted /\ data' = <<>>

\* C17: a step that changes a filter, the search term or the sort, that
\* toggles, selects all or clears, leaves the loaded list as it was, records
\* and order; the list changes only in a step that loads records
\* successfully or in a step of Disconnect.
C17_ListUntouched ==
    [][/\ (dash.mounted /\ dash'.mounted) => data' = data
       /\ data' # data => SuccessfulLoadStep \/ DisconnectStep]_vars

\* A Dashboard after as many events as the bound allows whose table is not
\* the loaded list.
C17_Witness ==
    /\ dash.mounted
    /\ clicks = MaxClicks
    /\ Len(Displayed) > 1
    /\ Displayed # data
    /\ SameRecords(Displayed, data)

\* The fetch came to a response that is not ok, or to a text in which
\* processData finds no valid record.
NoRecordsIn(fetched) ==
    \/ fetched.kind = "notOk"
    \/ /\ fetched.kind = "ok"
       /\ ~ProcessData(fetched.text, app, engine).threw
       /\ Len(ProcessData(fetched.text, app, engine).list) = 0

\* The step is handleUrlSubmit finishing on this outcome of the fetch.
FinishesOn(fetched) ==
    /\ loading
    /\ \E today \in Todays :
          SubmitFinishWith(TryLoad(fetched, ProcessData(fetched.text, app, engine)), today)

\* C18: when handleUrlSubmit finishes on a response that is not ok or on a
\* text with no valid record, the error is a non-empty message ("No valid
\* data found in spreadsheet." for the text with no valid record), the stored
\* list is as it was and no Dashboard is shown; and no step leaves a
\* Dashboard on the screen with an error set, whether its filtered view is
\* empty or rows of its sheet were rejected.
C18_NoValidData ==
    [][/\ \A fetched \in FetchOutcomes :
             (FinishesOn(fetched) /\ NoRecordsIn(fetched)) =>
                 /\ error' # Null
                 /\ error'.message # ""
                 /\ fetched.kind = "ok" => error' = Message(NoValidData)
                 /\ fetched.kind = "notOk" => error' = Message(CouldNotAccess)
                 /\ data' = data
                 /\ ~dash'.mounted
                 /\ ~loading'
       /\ dash'.mounted => (Len(data') > 0 /\ error' = Null)
       /\ (dash.mounted /\ dash'.mounted) => error' = error]_vars

\* A load that failed for want of a valid record, after an earlier one was
\* disconnected.
C18_Witness ==
    /\ error = Message(NoValidData)
    /\ ~loading
    /\ loads = MaxLoads
    /\ Len(data) = 0

\* The connect view (UrlInput) is what App renders.
ConnectViewShown == Len(data) = 0 /\ ~loading

\* C19: a step of Disconnect leaves the stored list empty and the connect
\* view on the screen, with nothing kept of the filters, the search term and
\* the sort; and the Dashboard that a later load mounts has an empty search
\* term, the initial sort and the default filters computed from the records
\* just loaded.
C19_Disconnect ==
    [][/\ (dash.mounted /\ ~dash'.mounted) =>
             /\ data' = <<>>
             /\ ConnectViewShown'
             /\ dash' = [mounted |-> FALSE]
       /\ (~dash.mounted /\ dash'.mounted) =>
             /\ Len(data') > 0
             /\ dash'.searchTerm = <<>>
             /\ dash'.sortConfig = InitialSortConfig(variant)
             /\ \E today \in Todays :
                   dash'.filters
                      = AfterMountEffect(data', DefaultFilters(data', variant, tz, today), variant)]_vars

\* The connect view after a load that succeeded and a Disconnect.
C19_Witness ==
    /\ ConnectViewShown
    /\ ~dash.mounted
    /\ loads > 0
    /\ error = Null

\* The string of normalize after join(' '), before its final replace.
Joined == TitleCaseWords(Trim(val))

\* The places of the joined string that the final pass changes: a lower-case
\* letter after a character that is not a letter, a digit or an underscore.
\* (After a space the letter is in upper case already.)
RaisedByFinalPass ==
    {i \in DOMAIN Joined :
        /\ i > 1
        /\ Joined[i] \in Range(LowerLetters)
        /\ ~IsWordChar(Joined[i - 1])}

\* C20 as claimed: for a value that is not blank what normalize returns is
\* the joined string, the final pass having changed nothing.
C20_AsClaimed ==
    (Done /\ ~IsBlankValue) => normalized = Joined

\* C20, amended: for a value that is not blank the final pass turns into
\* upper case exactly the lower-case letters of the joined string that follow
\* a character other than a letter, a digit or an underscore, such as a
\* hyphen or an apostrophe, and leaves every other character; it changes
\* nothing exactly when the joined string has no such letter.
C20_FinalPass ==
    (Done /\ ~IsBlankValue) =>
        /\ Len(normalized) = Len(Joined)
        /\ \A i \in DOMAIN Joined :
              normalized[i] = (IF i \in RaisedByFinalPass THEN CharToUpper(Joined[i]) ELSE Joined[i])
        /\ (normalized = Joined) <=> (RaisedByFinalPass = {})

\* A value with an apostrophe was normalized and the final pass raised the
\* letter after it.
C20_Witness ==
    /\ Done
    /\ val = <<"o", "'", "b", "r", "i", "e", "n">>
    /\ Joined = <<"O", "'", "b", "r", "i", "e", "n">>
    /\ normalized = <<"O", "'", "B", "r", "i", "e", "n">>

-----------------------------------------------------------------------------
(* The shape of a normalized value                                         *)

\* One or more words that are not empty, one space between two of them, no
\* space at either end and no slash.
IsSpacedWords(s) ==
    /\ Len(s) > 0
    /\ s[1] # " "
    /\ s[Len(s)] # " "
    /\ \A i \in DOMAIN s : s[i] # "/" /\ (s[i] \in WhiteSpace => s[i] = " ")
    /\ \A i \in 1..(Len(s) - 1) : ~(s[i] = " " /\ s[i + 1] = " ")

\* C21: for every value that is not blank what normalize returns is one or
\* more non-empty words separated by exactly one space, with no space at
\* either end and no slash, so never empty and never white space only, also
\* for a value that begins or ends with a slash or is nothing but slashes.
C21_SpacedWords ==
    (Done /\ ~IsBlankValue) => IsSpacedWords(normalized)

-----------------------------------------------------------------------------
(* Two adjacent quotes outside a quoted field                              *)

\* The cells of the line as written, between its commas.
CellsWritten == Split(line, ",")

\* Every quote of the line belongs to a cell written as "" and nothing else
\* but white space around it.
QuotesOnlyAsEmptyCells ==
    \A k \in DOMAIN CellsWritten :
        \/ Trim(CellsWritten[k]) = <<DQ, DQ>>
        \/ \A i \in DOMAIN CellsWritten[k] : CellsWritten[k][i] # DQ

\* C22: two adjacent quotes outside a quoted field open and close an empty
\* quoted field and add no character, so on a line whose only quotes are
\* cells written as "" every such cell tokenizes to the empty string and
\* every other cell to its trimmed text.
C22_EmptyQuotedCell ==
    (Done /\ QuotesOnlyAsEmptyCells) =>
        /\ Len(values) = Len(CellsWritten)
        /\ \A k \in DOMAIN CellsWritten :
              values[k] = (IF Trim(CellsWritten[k]) = <<DQ, DQ>> THEN <<>> ELSE Trim(CellsWritten[k]))

-----------------------------------------------------------------------------
(* The savings cell read as a whole                                        *)

\* How many characters of r a decimal literal without sign takes up: digits,
\* a fraction, and an exponent that has digits; 0 when r starts with none.
LiteralLength(r) ==
    LET n1   == DigitRun(r, 1)
        dot  == n1 + 1 <= Len(r) /\ r[n1 + 1] = "."
        n2   == IF dot THEN DigitRun(r, n1 + 2) ELSE 0
        p    == n1 + (IF dot THEN 1 + n2 ELSE 0)
        hasE == p + 1 <= Len(r) /\ r[p + 1] \in {"e", "E"}
        eAt  == p + 2 + (IF hasE /\ p + 2 <= Len(r) /\ r[p + 2] \in {"+", "-"} THEN 1 ELSE 0)
        ne   == IF hasE THEN DigitRun(r, eAt) ELSE 0
    IN  IF n1 + n2 = 0 THEN 0
        ELSE IF ne = 0 THEN p
        ELSE eAt + ne - 1

\* The text, white space at its ends aside, is nothing but a decimal literal
\* with or without sign.
IsNumericLiteral(s) ==
    LET t == Trim(s)
        r == IF t # <<>> /\ t[1] \in {"+", "-"} THEN Tail(t) ELSE t
    IN  r # <<>> /\ LiteralLength(r) = Len(r)

\* C23: the savings of every record returned are a finite number, and a row
\* whose savings cell, its $ and commas taken out, is not a numeric literal
\* from end to end ("12abc", "Infinity") gives no record.
C23_WholeCellFinite ==
    (Done /\ IsSheet) =>
        /\ \A k \in DOMAIN outcome.list : outcome.list[k].savings.k = "num"
        /\ \A r \in DOMAIN doc.rows :
              (/\ Len(doc.rows) = 1
               /\ CellAt(r, TOTAL_SAVINGS) # Undefined
               /\ ~IsNumericLiteral(StripMoney(CellAt(r, TOTAL_SAVINGS))))
                  => outcome.list = <<>>

-----------------------------------------------------------------------------
(* Broadening the filters back out                                         *)

\* The filters with nothing selected in any set (Clear All, or None on each
\* group) and a range picked from what the selects offer.
Cleared(start, end) ==
    [subsystems |-> <<>>, platforms |-> <<>>, statuses |-> <<>>, start |-> start, end |-> end]

\* Some filter state the controls can be brought to has the record in its
\* view.  The date inputs of part_001 take any day, the record's own too; the
\* year selects take the years they list.
CanBeShown(item) ==
    IF variant = "part_001" THEN MatchDateRange(item, item.date, item.date, tz)
    ELSE \E start, end \in YearsOffered(variant, data, tz) :
            Matches(item, Cleared(start, end), variant, tz, engine)

\* Some filter state the controls can be brought to has all the data in its
\* view.
CanShowAll ==
    IF variant = "part_001"
    THEN \E i, j \in DOMAIN data :
            \A k \in DOMAIN data : MatchDateRange(data[k], data[i].date, data[j].date, tz)
    ELSE \E start, end \in YearsOffered(variant, data, tz) :
            FilteredData(data, Cleared(start, end), variant, tz, engine) = data

\* C24: whatever the state of a mounted Dashboard, every record of the data
\* can be brought into the filtered view with the filter controls, and so
\* can all the data at once.
C24_CanBroaden ==
    dash.mounted => (CanShowAll /\ \A i \in DOMAIN data : CanBeShown(data[i]))

\* What Dashboard.tsx does instead: its year selects list 2022 to 2026, and
\* no record of another year is ever in its filtered view.
C24_FixedYears ==
    (dash.mounted /\ variant = "dashboard") =>
        \A k \in DOMAIN Filtered : GetFullYear(Filtered[k].date, tz) \in 2022..2026

\* Dashboard.tsx with records of other years loaded, the sets cleared and the
\* widest range picked.
C24_Witness ==
    /\ dash.mounted /\ variant = "dashboard"
    /\ dash.filters = Cleared(2022, 2026)
    /\ Len(Filtered) > 0
    /\ Len(Filtered) < Len(data)

-----------------------------------------------------------------------------
(* The default status filter                                               *)

\* The Dashboard has just mounted and nothing was clicked.
JustLoaded == dash.mounted /\ clicks = 0

IsRejected(item) == StringIncludes(ToLowerCase(item.status), RejectWord)

\* C25: in the filtered view of a Dashboard that has just mounted there is no
\* record whose status contains "reject", whatever the data, also when every
\* record of the data has such a status.
C25_NoRejectedAtFirst ==
    JustLoaded => \A k \in DOMAIN Filtered : ~IsRejected(Filtered[k])

\* What the code does: the default statuses are the statuses of the data
\* that are not rejected ones, and they keep the rejected records out of the
\* first view only when there is at least one of them; with none, the status
\* set is empty and restricts nothing.
C25_DefaultStatuses ==
    JustLoaded =>
        /\ Range(dash.filters.statuses)
              = {data[i].status : i \in DOMAIN data} \ {data[i].status : i \in {j \in DOMAIN data : ~KeepStatus(data[j].status, variant)}}
        /\ dash.filters.statuses # <<>> => \A k \in DOMAIN Filtered : ~IsRejected(Filtered[k])
        /\ dash.filters.statuses = <<>> =>
              Filtered = FilteredData(data, [dash.filters EXCEPT !.statuses = AllStatuses(data, variant)],
                                      variant, tz, engine)

\* A sheet of rejected rows only has just been loaded and its rows are in view.
C25_Witness ==
    /\ JustLoaded
    /\ \A i \in DOMAIN data : IsRejected(data[i])
    /\ dash.filters.statuses = <<>>
    /\ Len(Filtered) > 0

-----------------------------------------------------------------------------
(* The three views of App                                                  *)

LoadingViewShown == loading
DashboardShown == Len(data) > 0 /\ ~loading

\* A step in which handleUrlSubmit is called.
SubmitStartStep == loads' = loads + 1

\* C26: in every state App renders exactly one of the connect view, the
\* loading view and the Dashboard, the Dashboard being mounted exactly when
\* there are records and nothing is loading; and a call of handleUrlSubmit
\* starts only from the connect view, so never while a load is in progress
\* and never over a loaded list.
C26_OneView ==
    /\ [](/\ Cardinality({view \in {"connect", "loading", "dashboard"} :
                             \/ view = "connect" /\ ConnectViewShown
                             \/ view = "loading" /\ LoadingViewShown
                             \/ view = "dashboard" /\ DashboardShown}) = 1
          /\ dash.mounted <=> DashboardShown
          /\ loading => Len(data) = 0)
    /\ [][SubmitStartStep => (ConnectViewShown /\ ~loading /\ ~dash.mounted /\ loading')]_vars

\* A second load in progress, the first having been finished.
C26_Witness ==
    /\ LoadingViewShown
    /\ loads = MaxLoads
    /\ ~dash.mounted

-----------------------------------------------------------------------------
(* The outcomes of handleUrlSubmit                                         *)

\* A step in which a call of handleUrlSubmit completes.
SubmitFinishStep == loading /\ ~loading'

ListReplaced == Len(data') > 0 /\ data' # data /\ error' = Null
ErrorReported == error' # Null /\ error'.message # "" /\ data' = data

\* C27: a call of handleUrlSubmit first sets loading to true and error to
\* null and leaves the list; loading stays true until the call completes;
\* when it completes loading is false and either the list was replaced by a
\* non-empty one with error null, or error is a non-empty message and the
\* list is as it was, never both; so whenever the list is not empty error is
\* null.
C27_SubmitOutcomes ==
    /\ [][/\ SubmitStartStep => (loading' /\ error' = Null /\ data' = data)
          /\ loading' => (SubmitStartStep \/ UNCHANGED <<loading, error, data>>)
          /\ SubmitFinishStep => (ListReplaced \/ ErrorReported) /\ ~(ListReplaced /\ ErrorReported)]_vars
    /\ [](Len(data) > 0 => error = Null)

\* A call has completed on a fetch that was rejected without a message, and
\* the fallback text is the error.
C27_Witness ==
    /\ ~loading
    /\ loads > 0
    /\ error = Message(UnexpectedError)
    /\ Len(data) = 0

-----------------------------------------------------------------------------
(* toggleFilter                                                            *)

NoDuplicate(list) == \A i, j \in DOMAIN list : list[i] = list[j] => i = j

\* The step changes the set of key by the value as toggleFilter should, and
\* nothing else of the Dashboard's state.
ToggledBy(key, value) ==
    /\ Includes(dash.filters[key], value)
          => dash'.filters[key] = SelectSeq(dash.filters[key], LAMBDA x : x # value)
    /\ ~Includes(dash.filters[key], value)
          => dash'.filters[key] = Append(dash.filters[key], value)
    /\ Includes(dash'.filters[key], value) <=> ~Includes(dash.filters[key], value)
    /\ NoDuplicate(dash'.filters[key])
    /\ Range(Toggle(dash'.filters[key], value)) = Range(dash.filters[key])
    /\ NoDuplicate(Toggle(dash'.filters[key], value))
    /\ dash' = [dash EXCEPT !.filters[key] = dash'.filters[key]]
    /\ data' = data

\* The values of the field of key in the data: what its checkboxes show.
Checkboxes(key) == {data[i][FieldOf(key)] : i \in DOMAIN data}

\* The step is toggleFilter(key, value) on a mounted Dashboard.
ToggleStep(key, value) ==
    /\ dash.mounted
    /\ clicks' = clicks + 1
    /\ dash' = [dash EXCEPT !.filters[key] = Toggle(@, value)]

\* C28: a step of toggleFilter(key, value) takes the value out of the set of
\* key when it is there and puts it at the end when it is not, leaves no
\* value twice in the set, and leaves the other filter fields, the search
\* term and the sort as they were; toggling the same value once more gives
\* the set of values there was before.
C28_Toggle ==
    [][\A key \in FilterKeys : \A value \in Checkboxes(key) :
          ToggleStep(key, value) => ToggledBy(key, value)]_vars

\* Chassis was unticked and ticked again: the same two subsystems are
\* selected, in the other order.
C28_Witness ==
    /\ dash.mounted
    /\ clicks = 2
    /\ dash.filters.subsystems = <<Packaging, Chassis>>

-----------------------------------------------------------------------------
(* The selected values and the checkboxes                                  *)

\* The checkboxes of key that are ticked: active.includes(name) for an
\* option name.
Ticked(key) == Checkboxes(key) \cap Range(dash.filters[key])

\* The set of key keeps some record of the data out of the view.
Restricts(key) ==
    \E i \in DOMAIN data : ~MatchSet(dash.filters[key], data[i][FieldOf(key)])

\* C29: in every state of a mounted Dashboard, the first included, every
\* value of the subsystems, platforms and statuses sets is a value of that
\* field in the data, so a checkbox that is shown; and a field with no
\* ticked checkbox does not restrict the filtered view.
C29_SelectedAreOptions ==
    dash.mounted =>
        \A key \in FilterKeys :
            /\ Range(dash.filters[key]) \subseteq Checkboxes(key)
            /\ Ticked(key) = {} => ~Restricts(key)

\* What the code does: a Dashboard that has just mounted has the subsystems
\* Chassis and Packaging and its variant's list of platforms selected,
\* whatever the data holds.
C29_FixedDefaults ==
    JustLoaded =>
        /\ dash.filters.subsystems = <<Chassis, Packaging>>
        /\ dash.filters.platforms
              = (IF variant \in PresetVariants THEN <<Fsr, Bi, Ct, Mwo, Wo>> ELSE <<Fsr, Wo, Ct, Mwo>>)

\* Data without a Chassis or Packaging record has just been loaded: no
\* subsystem checkbox is ticked and the view is empty.
C29_Witness ==
    /\ JustLoaded
    /\ Ticked("subsystems") = {}
    /\ Restricts("subsystems")
    /\ Len(Filtered) = 0

-----------------------------------------------------------------------------
(* The status set once emptied                                             *)

EffectVariants == {"part_001", "part_003"}

\* A step of None on the statuses, or of the button that clears the three sets.
EmptiesStatuses ==
    \/ ClearAll
    \/ DashEvent([dash EXCEPT !.filters.statuses = <<>>])

\* A step of the search box, a sort header or a range control, and a step
\* that changes something of the Dashboard's state other than the statuses.
LeavesStatusesAlone ==
    \/ SetSearchTerm
    \/ HandleSort
    \/ SetStart
    \/ SetEnd
    \/ /\ dash.mounted /\ dash'.mounted
       /\ [dash' EXCEPT !.filters.statuses = <<>>] # [dash EXCEPT !.filters.statuses = <<>>]

EmptiedByStep == EmptiesStatuses => dash'.filters.statuses = <<>>

KeptEmptyByStep ==
    (dash.mounted /\ dash.filters.statuses = <<>> /\ clicks > 0 /\ LeavesStatusesAlone)
        => dash'.filters.statuses = <<>>

\* C30: in part_001 and part_003 the statuses are empty after None or the
\* clearing button, they stay empty through every later action on the other
\* filters, the search and the sort, and while they are empty the filtered
\* view is that of all the statuses of the data, the rejected ones too.
C30_StatusesStayEmpty ==
    /\ [][(variant \in EffectVariants) => (EmptiedByStep /\ KeptEmptyByStep)]_vars
    /\ []((dash.mounted /\ variant \in EffectVariants /\ dash.filters.statuses = <<>>) =>
             Filtered = SelectSeq(data, LAMBDA item :
                            /\ MatchDate(item, dash.filters, variant, tz, engine)
                            /\ MatchSet(dash.filters.subsystems, item.subsystem)
                            /\ MatchSet(dash.filters.platforms, item.platform)))

\* The sets were cleared and a term was typed: the statuses are still empty
\* and the table has rejected records and others.
C30_Witness ==
    /\ dash.mounted /\ variant \in EffectVariants
    /\ clicks = 2
    /\ dash.filters.statuses = <<>>
    /\ dash.searchTerm # <<>>
    /\ \E k \in DOMAIN Displayed : IsRejected(Displayed[k])
    /\ \E k \in DOMAIN Displayed : ~IsRejected(Displayed[k])

====
